---------------------------- MODULE Spec2Model ----------------------------
(***************************************************************************)
(* State-machine model of the concentrated-liquidity pool simulator of     *)
(* jit-bot: tick math, liquidity math, the pool state, the position        *)
(* lifecycle (mintPosition / burnPosition / collectFees) and the swap      *)
(* engine (executeSwap and its helpers).                                   *)
(*                                                                         *)
(* Number widths.  The source computes on arbitrary-precision BigInt with  *)
(* 96-bit and 128-bit fixed-point fractions.  TLC's integers are 32 bits   *)
(* wide, so every fixed-point scale is shrunk and nothing else is changed: *)
(*   Q96  (2^96)  -> 2^4      sqrt prices                                  *)
(*   Q128 (2^128) -> 2^4      fee growth, 2^10 inside getSqrtRatioAtTick   *)
(*   tick base 1.0001 -> 1.5625 (sqrt 1.25), ticks -887272..887272 -> -5..5*)
(*   tick spacing 10/60/200 -> 2 (MAX_TICK stays off the spacing grid)     *)
(*   fee tier 500/3000/10000 ppm -> 200000 ppm                             *)
(*   tick scan of 256 spacings -> 2 spacings                               *)
(*   liquidityGross ceiling 2^128-1 -> 2^4-1                               *)
(* Each operator keeps the source's order of multiplications, divisions    *)
(* and shifts, and the source's rounding (BigInt / truncates toward zero,  *)
(* >> is an arithmetic shift, i.e. rounds toward minus infinity).          *)
(***************************************************************************)
EXTENDS Integers, Sequences, FiniteSets, TLC

(***************************************************************************)
(* BigInt arithmetic                                                       *)
(***************************************************************************)
\* BigInt a / b: truncation toward zero (b # 0 is the caller's business).
Div(a, b) ==
    LET q == (IF a < 0 THEN -a ELSE a) \div (IF b < 0 THEN -b ELSE b)
    IN  IF (a >= 0) = (b > 0) THEN q ELSE -q

\* BigInt a >> n and a << n.
Shr(a, n) == a \div (2 ^ n)

Shl(a, n) == a * (2 ^ n)

Abs(a) == IF a < 0 THEN -a ELSE a

Min2(a, b) == IF a < b THEN a ELSE b

\* n's bit k (n >= 0).
Bit(n, k) == (n \div (2 ^ k)) % 2

(***************************************************************************)
(* Scales and program constants                                            *)
(***************************************************************************)
\* Fraction bits of a sqrt price (sqrtPriceX96).
RESOLUTION == 4

Q96 == 2 ^ RESOLUTION

\* Fraction bits of a fee-growth accumulator (X128).
FG_RESOLUTION == 4

\* Fraction bits of the ratio inside getSqrtRatioAtTick (Q128 there).
RATIO_RESOLUTION == 10

MIN_TICK == -5

MAX_TICK == 5

MIN_SQRT_RATIO == 6

MAX_SQRT_RATIO == 49

\* 2^128 / 1.25^(2^k) at RATIO_RESOLUTION bits, k = 0, 1, 2.
RATIO_BIT0 == 819

RATIO_BIT1 == 655

RATIO_BIT2 == 419

\* log_{sqrt base}(2) and the two error margins of getTickAtSqrtRatio,
\* at 2 * LOG_RESOLUTION bits.
LOG_RESOLUTION == 6

LOG_SQRT_BASE == 199

LOG_ERR_LOW == 41

LOG_ERR_HIGH == 3506

\* Fee arithmetic is in parts per million.
FEE_DENOMINATOR == 1000000

FeeTier == 200000

TickSpacing == 2

\* Spacings getNextInitializedTick scans before giving up.
SCAN_LIMIT == 2

\* The liquidityGross ceiling of updateTick.
MAX_LIQUIDITY_GROSS == (2 ^ 4) - 1

(***************************************************************************)
(* Tick math                                                               *)
(***************************************************************************)
TickInBounds(tick) == tick >= MIN_TICK /\ tick <= MAX_TICK

\* getSqrtRatioAtTick, for a tick within bounds (it throws otherwise).
getSqrtRatioAtTick(tick) ==
    LET absTick == Abs(tick)
        r0 == IF Bit(absTick, 0) # 0 THEN RATIO_BIT0 ELSE 2 ^ RATIO_RESOLUTION
        r1 == IF Bit(absTick, 1) # 0
              THEN Shr(r0 * RATIO_BIT1, RATIO_RESOLUTION) ELSE r0
        r2 == IF Bit(absTick, 2) # 0
              THEN Shr(r1 * RATIO_BIT2, RATIO_RESOLUTION) ELSE r1
        ratio == IF tick > 0
                 THEN Div(2 ^ (2 * RATIO_RESOLUTION) - 1, r2) ELSE r2
    IN  Shr(ratio, RATIO_RESOLUTION - RESOLUTION)

SqrtRatioInBounds(sqrtPriceX96) ==
    sqrtPriceX96 >= MIN_SQRT_RATIO /\ sqrtPriceX96 < MAX_SQRT_RATIO

\* The most-significant-bit search of getTickAtSqrtRatio (a binary search
\* over the shift amounts 8, 4, 2, 1).
MostSignificantBit(ratio) ==
    LET f3 == IF ratio > 255 THEN 8 ELSE 0
        a3 == Shr(ratio, f3)
        f2 == IF a3 > 15 THEN 4 ELSE 0
        a2 == Shr(a3, f2)
        f1 == IF a2 > 3 THEN 2 ELSE 0
        a1 == Shr(a2, f1)
        f0 == IF a1 > 1 THEN 1 ELSE 0
    IN  f3 + f2 + f1 + f0

\* The refinement loop of getTickAtSqrtRatio: iteration i squares r and
\* moves one more bit of the binary logarithm into log_2.
RECURSIVE Log2Refine(_, _, _)
Log2Refine(r, log_2, i) ==
    IF i = LOG_RESOLUTION THEN log_2
    ELSE CHOOSE refined \in
             {Log2Refine(Shr(sq, Shr(sq, RATIO_RESOLUTION)),
                         l + Shl(Shr(sq, RATIO_RESOLUTION), LOG_RESOLUTION - 1 - i),
                         i + 1) :
                 sq \in {Shr(r * r, RATIO_RESOLUTION - 1)}, l \in {log_2}} : TRUE

\* The two candidate ticks getTickAtSqrtRatio derives from the logarithm.
TickCandidates(sqrtPriceX96) ==
    LET ratio == Shl(sqrtPriceX96, RATIO_RESOLUTION - RESOLUTION)
        msb == MostSignificantBit(ratio)
        r == IF msb >= RATIO_RESOLUTION
             THEN Shr(ratio, msb - (RATIO_RESOLUTION - 1))
             ELSE Shl(ratio, (RATIO_RESOLUTION - 1) - msb)
        log_2 == Log2Refine(r, (msb - RATIO_RESOLUTION) * (2 ^ LOG_RESOLUTION), 0)
        log_sqrt == log_2 * LOG_SQRT_BASE
    IN  [tickLow |-> Shr(log_sqrt - LOG_ERR_LOW, 2 * LOG_RESOLUTION),
         tickHi |-> Shr(log_sqrt + LOG_ERR_HIGH, 2 * LOG_RESOLUTION)]

\* A getTickAtSqrtRatio that returns the upper candidate without comparing
\* its price with the price asked for.
getTickAtSqrtRatioUnchecked(sqrtPriceX96) == TickCandidates(sqrtPriceX96).tickHi

\* getTickAtSqrtRatio, for a price within bounds (it throws otherwise).
getTickAtSqrtRatio(sqrtPriceX96) ==
    CHOOSE tick \in
        {IF t.tickLow = t.tickHi THEN t.tickLow
         ELSE IF getSqrtRatioAtTick(t.tickHi) <= sqrtPriceX96 THEN t.tickHi
         ELSE t.tickLow : t \in {TickCandidates(sqrtPriceX96)}} : TRUE

\* Math.round(tick / tickSpacing) for integers, tickSpacing > 0, rounding a
\* half away from zero.
RoundHalfAway(tick, tickSpacing) ==
    IF tick >= 0 THEN (2 * tick + tickSpacing) \div (2 * tickSpacing)
    ELSE -((2 * (-tick) + tickSpacing) \div (2 * tickSpacing))

\* Math.round(tick / tickSpacing) for integers, tickSpacing > 0: the
\* quotient is exact wherever the rounding depends on it, and Math.round
\* is floor(x + 0.5).
RoundedQuotient(tick, tickSpacing) ==
    (2 * tick + tickSpacing) \div (2 * tickSpacing)

\* nearestUsableTick without the two clamps.
nearestUsableTickUnclamped(tick, tickSpacing) ==
    RoundedQuotient(tick, tickSpacing) * tickSpacing

\* nearestUsableTick, for a positive spacing (it throws otherwise);
\* Math.ceil(MIN_TICK / s) is -floor(-MIN_TICK / s).
nearestUsableTick(tick, tickSpacing) ==
    LET rounded == RoundedQuotient(tick, tickSpacing) * tickSpacing
    IN  IF rounded < MIN_TICK
        THEN (-((-MIN_TICK) \div tickSpacing)) * tickSpacing
        ELSE IF rounded > MAX_TICK
        THEN (MAX_TICK \div tickSpacing) * tickSpacing
        ELSE rounded

(***************************************************************************)
(* Liquidity math                                                          *)
(***************************************************************************)
LowOf(a, b) == IF a > b THEN b ELSE a

HighOf(a, b) == IF a > b THEN a ELSE b

liquidityFromToken0(sqrtRatioAX96, sqrtRatioBX96, amount0) ==
    LET a == LowOf(sqrtRatioAX96, sqrtRatioBX96)
        b == HighOf(sqrtRatioAX96, sqrtRatioBX96)
        intermediate == Shr(a * b, RESOLUTION)
    IN  Div(amount0 * intermediate, b - a)

liquidityFromToken1(sqrtRatioAX96, sqrtRatioBX96, amount1) ==
    LET a == LowOf(sqrtRatioAX96, sqrtRatioBX96)
        b == HighOf(sqrtRatioAX96, sqrtRatioBX96)
    IN  Div(Shl(amount1, RESOLUTION), b - a)

\* A liquidityForAmounts that applies both single-token formulas to the
\* whole range when the current price is inside it.
liquidityForAmountsWholeRange(sqrtRatioCurrentX96, sqrtRatioAX96, sqrtRatioBX96, amount0, amount1) ==
    LET a == IF sqrtRatioAX96 > sqrtRatioBX96 THEN sqrtRatioBX96 ELSE sqrtRatioAX96
        b == IF sqrtRatioAX96 > sqrtRatioBX96 THEN sqrtRatioAX96 ELSE sqrtRatioBX96
        liquidity0 == Div(amount0 * Shr(a * b, RESOLUTION), b - a)
        liquidity1 == Div(Shl(amount1, RESOLUTION), b - a)
    IN  IF sqrtRatioCurrentX96 <= a THEN liquidity0
        ELSE IF sqrtRatioCurrentX96 < b
        THEN (IF liquidity0 < liquidity1 THEN liquidity0 ELSE liquidity1)
        ELSE liquidity1

liquidityForAmounts(sqrtRatioCurrentX96, sqrtRatioAX96, sqrtRatioBX96, amount0, amount1) ==
    LET a == LowOf(sqrtRatioAX96, sqrtRatioBX96)
        b == HighOf(sqrtRatioAX96, sqrtRatioBX96)
    IN  IF sqrtRatioCurrentX96 <= a
        THEN liquidityFromToken0(a, b, amount0)
        ELSE IF sqrtRatioCurrentX96 < b
        THEN Min2(liquidityFromToken0(sqrtRatioCurrentX96, b, amount0),
                  liquidityFromToken1(a, sqrtRatioCurrentX96, amount1))
        ELSE liquidityFromToken1(a, b, amount1)

getAmount0ForLiquidity(sqrtRatioAX96, sqrtRatioBX96, liq) ==
    LET a == LowOf(sqrtRatioAX96, sqrtRatioBX96)
        b == HighOf(sqrtRatioAX96, sqrtRatioBX96)
    IN  Div(Div(Shl(liq, RESOLUTION) * (b - a), b), a)

\* A getAmount1ForLiquidity that takes the two prices in the order given.
getAmount1ForLiquidityUnsorted(sqrtRatioAX96, sqrtRatioBX96, liq) ==
    Shr(liq * (sqrtRatioBX96 - sqrtRatioAX96), RESOLUTION)

getAmount1ForLiquidity(sqrtRatioAX96, sqrtRatioBX96, liq) ==
    LET a == LowOf(sqrtRatioAX96, sqrtRatioBX96)
        b == HighOf(sqrtRatioAX96, sqrtRatioBX96)
    IN  Shr(liq * (b - a), RESOLUTION)

getAmountsForLiquidity(sqrtRatioCurrentX96, sqrtRatioAX96, sqrtRatioBX96, liq) ==
    LET a == LowOf(sqrtRatioAX96, sqrtRatioBX96)
        b == HighOf(sqrtRatioAX96, sqrtRatioBX96)
    IN  IF sqrtRatioCurrentX96 <= a
        THEN [amount0 |-> getAmount0ForLiquidity(a, b, liq), amount1 |-> 0]
        ELSE IF sqrtRatioCurrentX96 < b
        THEN [amount0 |-> getAmount0ForLiquidity(sqrtRatioCurrentX96, b, liq),
              amount1 |-> getAmount1ForLiquidity(a, sqrtRatioCurrentX96, liq)]
        ELSE [amount0 |-> 0, amount1 |-> getAmount1ForLiquidity(a, b, liq)]

(***************************************************************************)
(* Bounds of the exploration                                               *)
(***************************************************************************)
\* Calls (mint, burn, collect, swap) per behaviour.
MaxOps == 3

\* Entries of the steps log of one executeSwap call that are counted.  The
\* loop is followed further only while its iterations repeat themselves.
MaxSwapSteps == 9

Owners == {<<"l", "p">>}

\* Calls of mintPosition that are explored: <<tickLower, tickUpper,
\* amount0Max, amount1Max>>.  The last four are rejected: an empty range, a
\* misaligned tick, a tick beyond MAX_TICK, amounts too small for any
\* liquidity.
MintRequests ==
    {<<-2, 0, 4, 4>>, <<0, 2, 4, 4>>, <<-2, 2, 4, 4>>,
     <<-2, 0, 2, 2>>, <<0, 2, 2, 2>>, <<-2, 2, 2, 2>>,
     <<2, 0, 4, 4>>, <<0, 1, 4, 4>>, <<0, 6, 4, 4>>, <<0, 2, 0, 0>>}

\* Ranges a position key of a burnPosition or collectFees call may name;
\* <<2, 0>> is the key of no position.
KeyRanges == {<<-2, 0>>, <<0, 2>>, <<-2, 2>>, <<2, 0>>}

SwapAmounts == {-3, 2, 12}

\* 0 stands for "no sqrtPriceLimitX96 given"; the others are sqrt prices
\* between MIN_SQRT_RATIO and MAX_SQRT_RATIO, on either side of the pool's.
SwapLimits == {0, 12, 22}

\* amount0Max = amount1Max of a collectFees call.
CollectAmounts == {1, 100}

\* The calls FeeSpec explores.
MaxFeeOps == 4

FeeMintRequests == {<<-2, 0, 2, 2>>}

FeeSwapAmounts == {2}

\* Calls per behaviour of FlowSpec.
MaxFlowOps == 3

\* The calls CloneSpec explores, before and after clonePoolState.
MaxCloneOps == 3

CloneMintRequests == {<<-2, 2, 4, 4>>, <<0, 2, 2, 2>>}

CloneSwapAmounts == {2, 12}

\* Calls made on the pool before it is handed to executeJitSimulation.
MaxJitSetup == 2

\* params.tickLower and params.tickUpper of executeJitSimulation; <<2, 0>>
\* is an empty range.
JitRanges == {<<-2, 2>>, <<0, 2>>, <<-2, 0>>, <<2, 0>>}

\* params.swapParams of executeJitSimulation: <<zeroForOne,
\* amountSpecified, sqrtPriceLimitX96>>.
JitSwaps == {<<TRUE, 2, 0>>, <<FALSE, 2, 0>>, <<FALSE, 12, 0>>}

\* params.liquidityAmount of executeJitSimulation: from 1 to the ceiling.
JitLiquidityAmounts == {1, 4, MAX_LIQUIDITY_GROSS}

\* amount0Max = amount1Max of the mint executeJitSimulation makes: 2^256 - 1
\* in the source, the square of the liquidityGross ceiling plus twice it.
JIT_AMOUNT_MAX == (MAX_LIQUIDITY_GROSS + 1) * (MAX_LIQUIDITY_GROSS + 1) - 1

\* Pools handed over by createPoolState: (sqrtPriceX96, currentTick).
InitialCursors == {<<16, 0>>, <<17, 0>>}

InitialLiquidity == {0, 8}

(***************************************************************************)
(* Pool state                                                              *)
(***************************************************************************)
VARIABLES
    sqrtPriceX96,           \* PoolState.sqrtPriceX96
    currentTick,            \* PoolState.currentTick
    liquidity,              \* PoolState.liquidity
    feeGrowthGlobal0X128,   \* PoolState.feeGrowthGlobal0X128
    feeGrowthGlobal1X128,   \* PoolState.feeGrowthGlobal1X128
    ticks,                  \* PoolState.ticks: tick -> TickInfo
    positions,              \* PoolState.positions: key -> PositionInfo
    pc,                     \* "idle"; "swap" at the head of executeSwap's
                            \* loop, "step" inside its body
    sw,                     \* executeSwap's parameters and local variables
    last,                   \* what the last finished call returned or threw
    createdLiquidity,       \* the liquidity createPoolState was given
    nOps,                   \* calls made so far
    flow,                   \* what the swaps returned so far have moved, summed
    baseline,               \* the other PoolState once clonePoolState has run,
                            \* and the entries it shares with this one
    jit,                    \* executeJitSimulation's step, parameters and
                            \* mint result
    call,                   \* the last call of a function of tick_math.ts or
                            \* of the liquidity math: arguments and outcome
    ledger,                 \* fees the swaps have charged and fees credited
                            \* to positions so far, summed per token
    bx,                     \* the bloXroute watcher: its socket, counters and timer
    bot,                    \* the JitBot process: shutdown() calls, signals, exit
    metrics,                \* a JitMetrics: counters, histograms, last summary
    ws                      \* a WsProvider: its fields and the start() and
                            \* stop() calls made on it

vars == <<sqrtPriceX96, currentTick, liquidity, feeGrowthGlobal0X128,
          feeGrowthGlobal1X128, ticks, positions, pc, sw, last,
          createdLiquidity, nOps, flow, ledger, baseline, jit, call, ws, bx, bot, metrics>>

pool == <<sqrtPriceX96, currentTick, liquidity, feeGrowthGlobal0X128,
          feeGrowthGlobal1X128, ticks, positions>>

\* A map without one of its keys (Map.delete).
MapDelete(m, k) == [x \in (DOMAIN m) \ {k} |-> m[x]]

\* A map with one key set (Map.set).
MapSet(m, k, v) == (k :> v) @@ m

\* A string is the sequence of its characters.  NumberText is the text a
\* template literal gives an integer: its decimal digits, after a '-' when
\* it is negative.
DigitText == <<"0", "1", "2", "3", "4", "5", "6", "7", "8", "9">>

RECURSIVE DigitsText(_)
DigitsText(n) ==
    IF n < 10 THEN <<DigitText[n + 1]>>
    ELSE Append(DigitsText(n \div 10), DigitText[(n % 10) + 1])

NumberText(n) ==
    IF n < 0 THEN <<"-">> \o DigitsText(-n) ELSE DigitsText(n)

\* `${owner}-${tickLower}-${tickUpper}`
getPositionKey(owner, tickLower, tickUpper) ==
    owner \o <<"-">> \o NumberText(tickLower) \o <<"-">> \o NumberText(tickUpper)

NoResult ==
    [op |-> "none", err |-> "", key |-> <<>>, amount0 |-> 0, amount1 |-> 0,
     liquidity |-> 0, feeAmount0 |-> 0, feeAmount1 |-> 0, feeAmount |-> 0,
     sqrtPriceX96 |-> 0, tick |-> 0]

NoSwap ==
    [zeroForOne |-> FALSE, amountSpecified |-> 0, sqrtPriceLimitX96 |-> 0,
     currentSqrtPriceX96 |-> 0, currentTickValue |-> 0, currentLiquidity |-> 0,
     amountSpecifiedRemaining |-> 0, amountCalculated |-> 0, feeAmount |-> 0,
     steps |-> 0]

\* No account is kept of the swaps' amounts.
NoFlow == [tracking |-> FALSE, start |-> 0, amount0 |-> 0, amount1 |-> 0, swaps |-> 0]

\* clonePoolState has not been called: there is no other PoolState.
NoBaseline ==
    [cloned |-> FALSE, side |-> 0, pool |-> <<>>, whole |-> FALSE,
     ticksShared |-> {}, positionsShared |-> {}]

\* executeJitSimulation is not running.
NoJit ==
    [step |-> "none", tickLower |-> 0, tickUpper |-> 0, swapParams |-> <<>>,
     positionKey |-> <<>>, liquidity |-> 0, liquidityAmount |-> 0,
     steps |-> <<>>, returned |-> FALSE, success |-> FALSE,
     grossFeesToken0 |-> 0, grossFeesToken1 |-> 0, liquidityDeployed |-> 0]

\* new WsProvider(config), config.wsUrl given: no provider (0 stands for
\* null), not started, no call made.  created counts the
\* WebSocketProviders made so far; startCompleted and stopCompleted
\* remember that a start() has run to its end, and that a stop() has
\* returned with no start() running to its end since.
WsConstructed ==
    [provider |-> 0, isStarted |-> FALSE, created |-> 0, calls |-> <<>>,
     startCompleted |-> FALSE, stopCompleted |-> FALSE]

\* No function of the math modules has been called.
NoCall == [fn |-> "none", args |-> <<>>, threw |-> FALSE, err |-> "", result |-> 0]

\* createPoolState: no ticks, no positions, zero fee growth.
\* startBloxrouteWatcher has returned: its first connect() has made a socket
\* and added a SIGINT listener.  closes and closeEvents count the 'close'
\* events since the last 'open' and in all, sockets the sockets made,
\* socketsAtSignal those made when the first SIGINT came.
BxStarted ==
    [socket |-> "connecting", reconnectAttempts |-> 0, closedByUs |-> FALSE,
     timers |-> 0, backoffMs |-> 0, listeners |-> 1, sockets |-> 1,
     closes |-> 0, closeEvents |-> 0, signals |-> 0, socketsAtSignal |-> 0]

\* main() has made the JitBot and set the signal handlers; start() has not
\* returned yet.  calls are the calls of shutdown() made so far, save is how
\* far stateStore.save() has come, stopFailed whether a stop() has thrown.
BotConstructed ==
    [phase |-> "constructed", isShuttingDown |-> FALSE, isWatching |-> FALSE,
     wsConnected |-> FALSE, stateStore |-> FALSE, timer |-> FALSE,
     calls |-> <<>>, save |-> "none", stopFailed |-> FALSE, signals |-> 0,
     exited |-> FALSE]

\* The five names the constructor of JitMetrics puts into its histograms map.
HistogramNames ==
    {"jit_position_profit_usd", "jit_position_duration_ms", "jit_gas_cost_usd",
     "jit_swap_size_usd", "jit_score_distribution"}

\* The counters and gauges of a new JitMetrics, or of one after reset().
MetricsZero ==
    [jit_opportunities_detected_total |-> 0, jit_positions_opened_total |-> 0,
     jit_positions_successful_total |-> 0, jit_active_positions |-> 0]

\* new JitMetrics(): counters at zero, one empty histogram per name.  handed
\* counts the values given to recordHistogram since the construction or the
\* last reset(), calls the calls made, summary how the last
\* getPerformanceSummary() ended.
MetricsConstructed ==
    [metrics |-> MetricsZero, histograms |-> [n \in HistogramNames |-> <<>>],
     wasReset |-> FALSE, handed |-> 0, calls |-> 0, summary |-> "none"]

PoolInit ==
    /\ \E c \in InitialCursors : sqrtPriceX96 = c[1] /\ currentTick = c[2]
    /\ liquidity \in InitialLiquidity
    /\ createdLiquidity = liquidity
    /\ feeGrowthGlobal0X128 = 0
    /\ feeGrowthGlobal1X128 = 0
    /\ ticks = <<>>
    /\ positions = <<>>
    /\ pc = "idle"
    /\ sw = NoSwap
    /\ last = NoResult
    /\ nOps = 0
    /\ baseline = NoBaseline
    /\ jit = NoJit
    /\ call = NoCall
    /\ ws = WsConstructed
    /\ metrics = MetricsConstructed
    /\ bot = BotConstructed
    /\ bx = BxStarted

\* No account is kept of the fees.
NoLedger ==
    [tracking |-> FALSE, charged0 |-> 0, charged1 |-> 0,
     credited0 |-> 0, credited1 |-> 0]

Init == PoolInit /\ flow = NoFlow /\ ledger = NoLedger

\* The same pools, with an account kept of the fees charged and credited.
LedgerInit ==
    /\ PoolInit
    /\ flow = NoFlow
    /\ ledger = [NoLedger EXCEPT !.tracking = TRUE]

\* The same pools, with an account kept of what the swaps return: the price
\* the pool starts at, and the sums of amount0 and of amount1.
FlowInit ==
    /\ PoolInit
    /\ flow = [tracking |-> TRUE, start |-> sqrtPriceX96,
               amount0 |-> 0, amount1 |-> 0, swaps |-> 0]
    /\ ledger = NoLedger

(***************************************************************************)
(* updateTick and getFeeGrowthInside                                       *)
(***************************************************************************)
\* updateTick(state, tick, liquidityDelta) on the tick map tks.  The result
\* is the tick map it leaves behind and whether it threw 'Liquidity
\* overflow': a new entry is put into the map before the ceiling is checked.
updateTick(tks, curTick, fg0, fg1, tick, liquidityDelta) ==
    LET existed == tick \in DOMAIN tks
        fresh == [liquidityGross |-> 0, liquidityNet |-> 0,
                  feeGrowthOutside0X128 |-> IF tick <= curTick THEN fg0 ELSE 0,
                  feeGrowthOutside1X128 |-> IF tick <= curTick THEN fg1 ELSE 0,
                  initialized |-> FALSE]
        tickInfo == IF existed THEN tks[tick] ELSE fresh
        withEntry == IF existed THEN tks ELSE MapSet(tks, tick, fresh)
        liquidityGrossBefore == tickInfo.liquidityGross
        liquidityGrossAfter == liquidityGrossBefore + Abs(liquidityDelta)
        flipped == (liquidityGrossAfter = 0) # (liquidityGrossBefore = 0)
        updated == [tickInfo EXCEPT
                      !.initialized = IF liquidityGrossBefore = 0 THEN TRUE ELSE @,
                      !.liquidityGross = liquidityGrossAfter,
                      !.liquidityNet = @ + liquidityDelta]
    IN  IF liquidityGrossAfter > MAX_LIQUIDITY_GROSS
        THEN [threw |-> TRUE, ticks |-> withEntry]
        ELSE IF flipped /\ liquidityGrossAfter = 0
        THEN [threw |-> FALSE, ticks |-> MapDelete(withEntry, tick)]
        ELSE [threw |-> FALSE, ticks |-> [withEntry EXCEPT ![tick] = updated]]

getFeeGrowthInside(tks, curTick, fg0, fg1, tickLower, tickUpper, token0) ==
    LET feeGrowthGlobalX128 == IF token0 THEN fg0 ELSE fg1
        Outside(t) == IF token0 THEN tks[t].feeGrowthOutside0X128
                      ELSE tks[t].feeGrowthOutside1X128
        feeGrowthBelowX128 ==
            IF tickLower \in DOMAIN tks /\ tks[tickLower].initialized
            THEN IF curTick >= tickLower THEN Outside(tickLower)
                 ELSE feeGrowthGlobalX128 - Outside(tickLower)
            ELSE 0
        feeGrowthAboveX128 ==
            IF tickUpper \in DOMAIN tks /\ tks[tickUpper].initialized
            THEN IF curTick < tickUpper THEN Outside(tickUpper)
                 ELSE feeGrowthGlobalX128 - Outside(tickUpper)
            ELSE 0
    IN  feeGrowthGlobalX128 - feeGrowthBelowX128 - feeGrowthAboveX128

(***************************************************************************)
(* Entries shared between two PoolStates                                   *)
(***************************************************************************)
\* The PositionInfo object burnPosition leaves behind when it takes the
\* position's last liquidity: it is written (runner.ts:847-851) before its
\* key is deleted from the map.
BurnedOut(position) ==
    [position EXCEPT
       !.liquidity = 0,
       !.tokensOwed0 = @ + last'.feeAmount0,
       !.tokensOwed1 = @ + last'.feeAmount1,
       !.feeGrowthInside0LastX128 =
           getFeeGrowthInside(ticks, currentTick, feeGrowthGlobal0X128,
               feeGrowthGlobal1X128, position.tickLower, position.tickUpper, TRUE),
       !.feeGrowthInside1LastX128 =
           getFeeGrowthInside(ticks, currentTick, feeGrowthGlobal0X128,
               feeGrowthGlobal1X128, position.tickLower, position.tickUpper, FALSE)]

\* The other PoolState after a step on this one.  updateTick, crossTick,
\* mintPosition, burnPosition and collectFees write TickInfo and
\* PositionInfo objects in place: an object that is an entry of both maps
\* changes in both.  Map.set and Map.delete change this pool's map only, and
\* an entry deleted here is shared no longer.  When the other PoolState is
\* this very object (whole), every write is a write to it.
SharedAfter ==
    IF baseline.whole
    THEN [baseline EXCEPT !.pool = pool']
    ELSE IF baseline.ticksShared = {} /\ baseline.positionsShared = {}
    THEN baseline
    ELSE [baseline EXCEPT
            !.pool[6] = [k \in DOMAIN @ |->
                           IF k \in baseline.ticksShared /\ k \in DOMAIN ticks'
                           THEN ticks'[k] ELSE @[k]],
            !.pool[7] = [k \in DOMAIN @ |->
                           IF k \in baseline.positionsShared
                           THEN IF k \in DOMAIN positions' THEN positions'[k]
                                ELSE BurnedOut(positions[k])
                           ELSE @[k]],
            !.ticksShared = @ \cap DOMAIN ticks',
            !.positionsShared = @ \cap DOMAIN positions']

(***************************************************************************)
(* mintPosition                                                            *)
(***************************************************************************)
\* A settlement that credits the fees on the liquidity the position has once
\* the minted liquidity is added.
SettledPositionLate(existingPosition, liq, feeGrowthInside0X128, feeGrowthInside1X128) ==
    [existingPosition EXCEPT
       !.tokensOwed0 = @ + Shr((existingPosition.liquidity + liq) *
           (feeGrowthInside0X128 - existingPosition.feeGrowthInside0LastX128),
           FG_RESOLUTION),
       !.tokensOwed1 = @ + Shr((existingPosition.liquidity + liq) *
           (feeGrowthInside1X128 - existingPosition.feeGrowthInside1LastX128),
           FG_RESOLUTION),
       !.liquidity = @ + liq,
       !.feeGrowthInside0LastX128 = feeGrowthInside0X128,
       !.feeGrowthInside1LastX128 = feeGrowthInside1X128]

\* mintPosition on an existing position: the fees owed are credited on the
\* liquidity it holds, then liq is added and the snapshots are taken.
SettledPosition(existingPosition, liq, feeGrowthInside0X128, feeGrowthInside1X128) ==
    [existingPosition EXCEPT
       !.tokensOwed0 = @ + Shr(existingPosition.liquidity *
           (feeGrowthInside0X128 - existingPosition.feeGrowthInside0LastX128),
           FG_RESOLUTION),
       !.tokensOwed1 = @ + Shr(existingPosition.liquidity *
           (feeGrowthInside1X128 - existingPosition.feeGrowthInside1LastX128),
           FG_RESOLUTION),
       !.liquidity = @ + liq,
       !.feeGrowthInside0LastX128 = feeGrowthInside0X128,
       !.feeGrowthInside1LastX128 = feeGrowthInside1X128]

\* What mintPosition does to the pool and what it returns or throws.
MintOutcome(recipient, tickLower, tickUpper, amount0Max, amount1Max) ==
    LET unchanged == [ticks |-> ticks, liquidity |-> liquidity, positions |-> positions]
        Thrown(e, st) == [err |-> e, amount0 |-> 0, amount1 |-> 0, liq |-> 0, st |-> st]
    IN
    IF tickLower >= tickUpper THEN Thrown("Invalid tick range", unchanged)
    ELSE IF tickLower % TickSpacing # 0 \/ tickUpper % TickSpacing # 0
    THEN Thrown("Ticks not aligned to tick spacing", unchanged)
    ELSE IF ~TickInBounds(tickLower) \/ ~TickInBounds(tickUpper)
    THEN Thrown("Tick out of bounds", unchanged)
    ELSE
    LET sqrtPriceLowerX96 == getSqrtRatioAtTick(tickLower)
        sqrtPriceUpperX96 == getSqrtRatioAtTick(tickUpper)
        liq == liquidityForAmounts(sqrtPriceX96, sqrtPriceLowerX96,
                                   sqrtPriceUpperX96, amount0Max, amount1Max)
        amounts == getAmountsForLiquidity(sqrtPriceX96, sqrtPriceLowerX96,
                                          sqrtPriceUpperX96, liq)
    IN
    IF liq = 0 THEN Thrown("No liquidity to mint", unchanged)
    ELSE IF amounts.amount0 > amount0Max \/ amounts.amount1 > amount1Max
    THEN Thrown("Amount exceeds maximum", unchanged)
    ELSE
    LET u1 == updateTick(ticks, currentTick, feeGrowthGlobal0X128,
                         feeGrowthGlobal1X128, tickLower, liq)
    IN
    IF u1.threw
    THEN Thrown("Liquidity overflow", [unchanged EXCEPT !.ticks = u1.ticks])
    ELSE
    LET u2 == updateTick(u1.ticks, currentTick, feeGrowthGlobal0X128,
                         feeGrowthGlobal1X128, tickUpper, -liq)
    IN
    IF u2.threw
    THEN Thrown("Liquidity overflow", [unchanged EXCEPT !.ticks = u2.ticks])
    ELSE
    LET newLiquidity == IF tickLower <= currentTick /\ currentTick < tickUpper
                        THEN liquidity + liq ELSE liquidity
        positionKey == getPositionKey(recipient, tickLower, tickUpper)
        feeGrowthInside0X128 ==
            getFeeGrowthInside(u2.ticks, currentTick, feeGrowthGlobal0X128,
                               feeGrowthGlobal1X128, tickLower, tickUpper, TRUE)
        feeGrowthInside1X128 ==
            getFeeGrowthInside(u2.ticks, currentTick, feeGrowthGlobal0X128,
                               feeGrowthGlobal1X128, tickLower, tickUpper, FALSE)
        newPosition ==
            IF positionKey \in DOMAIN positions
            THEN SettledPosition(positions[positionKey], liq,
                                 feeGrowthInside0X128, feeGrowthInside1X128)
            ELSE [owner |-> recipient, tickLower |-> tickLower, tickUpper |-> tickUpper,
                  liquidity |-> liq,
                  feeGrowthInside0LastX128 |-> feeGrowthInside0X128,
                  feeGrowthInside1LastX128 |-> feeGrowthInside1X128,
                  tokensOwed0 |-> 0, tokensOwed1 |-> 0]
    IN  [err |-> "", amount0 |-> amounts.amount0, amount1 |-> amounts.amount1,
         liq |-> liq,
         st |-> [ticks |-> u2.ticks, liquidity |-> newLiquidity,
                 positions |-> IF positionKey \in DOMAIN positions
                               THEN [positions EXCEPT ![positionKey] = newPosition]
                               ELSE MapSet(positions, positionKey, newPosition)]]

\* The account of the fees after a mintPosition or burnPosition call on
\* positionKey: what the call has added to the position's tokensOwed0 and
\* tokensOwed1 counts as credited; for a position the burn removes, that
\* is the feeAmount0 and feeAmount1 it returns (runner.ts:848-849).
LedgerAfterCredit(positionKey) ==
    IF ~ledger.tracking \/ last'.err # "" \/ positionKey \notin DOMAIN positions
    THEN ledger
    ELSE IF positionKey \in DOMAIN positions'
    THEN [ledger EXCEPT
            !.credited0 = @ + positions'[positionKey].tokensOwed0
                            - positions[positionKey].tokensOwed0,
            !.credited1 = @ + positions'[positionKey].tokensOwed1
                            - positions[positionKey].tokensOwed1]
    ELSE [ledger EXCEPT !.credited0 = @ + last'.feeAmount0,
                        !.credited1 = @ + last'.feeAmount1]

mintPosition(recipient, tickLower, tickUpper, amount0Max, amount1Max) ==
    /\ pc = "idle"
    /\ LET r == MintOutcome(recipient, tickLower, tickUpper, amount0Max, amount1Max)
       IN  /\ ticks' = r.st.ticks
           /\ liquidity' = r.st.liquidity
           /\ positions' = r.st.positions
           /\ last' = [NoResult EXCEPT !.op = "mint", !.err = r.err,
                         !.key = getPositionKey(recipient, tickLower, tickUpper),
                         !.amount0 = r.amount0, !.amount1 = r.amount1,
                         !.liquidity = r.liq]
    /\ nOps' = nOps + 1
    /\ UNCHANGED <<sqrtPriceX96, currentTick, feeGrowthGlobal0X128,
                   feeGrowthGlobal1X128, pc, sw, createdLiquidity, flow>>
    /\ ledger' = LedgerAfterCredit(last'.key)
    /\ baseline' = SharedAfter

\* A call of mintPosition made outside executeJitSimulation.
Mint(recipient, tickLower, tickUpper, amount0Max, amount1Max) ==
    /\ mintPosition(recipient, tickLower, tickUpper, amount0Max, amount1Max)
    /\ UNCHANGED <<jit, call, ws, bx, bot, metrics>>

(***************************************************************************)
(* burnPosition and collectFees                                            *)
(***************************************************************************)
BurnOutcome(positionKey, burnLiquidity) ==
    LET unchanged == [ticks |-> ticks, liquidity |-> liquidity, positions |-> positions]
        Thrown(e, st) == [err |-> e, amount0 |-> 0, amount1 |-> 0,
                          feeAmount0 |-> 0, feeAmount1 |-> 0, st |-> st]
    IN
    IF positionKey \notin DOMAIN positions THEN Thrown("Position not found", unchanged)
    ELSE
    LET position == positions[positionKey]
    IN
    IF burnLiquidity > position.liquidity THEN Thrown("Insufficient liquidity", unchanged)
    ELSE
    LET feeGrowthInside0X128 ==
            getFeeGrowthInside(ticks, currentTick, feeGrowthGlobal0X128,
                feeGrowthGlobal1X128, position.tickLower, position.tickUpper, TRUE)
        feeGrowthInside1X128 ==
            getFeeGrowthInside(ticks, currentTick, feeGrowthGlobal0X128,
                feeGrowthGlobal1X128, position.tickLower, position.tickUpper, FALSE)
        amounts == getAmountsForLiquidity(sqrtPriceX96,
                       getSqrtRatioAtTick(position.tickLower),
                       getSqrtRatioAtTick(position.tickUpper), burnLiquidity)
        feeAmount0 == Shr(burnLiquidity *
            (feeGrowthInside0X128 - position.feeGrowthInside0LastX128), FG_RESOLUTION)
        feeAmount1 == Shr(burnLiquidity *
            (feeGrowthInside1X128 - position.feeGrowthInside1LastX128), FG_RESOLUTION)
        u1 == updateTick(ticks, currentTick, feeGrowthGlobal0X128,
                         feeGrowthGlobal1X128, position.tickLower, -burnLiquidity)
    IN
    IF u1.threw
    THEN Thrown("Liquidity overflow", [unchanged EXCEPT !.ticks = u1.ticks])
    ELSE
    LET u2 == updateTick(u1.ticks, currentTick, feeGrowthGlobal0X128,
                         feeGrowthGlobal1X128, position.tickUpper, burnLiquidity)
    IN
    IF u2.threw
    THEN Thrown("Liquidity overflow", [unchanged EXCEPT !.ticks = u2.ticks])
    ELSE
    LET newLiquidity ==
            IF position.tickLower <= currentTick /\ currentTick < position.tickUpper
            THEN liquidity - burnLiquidity ELSE liquidity
        newPosition == [position EXCEPT
                          !.liquidity = @ - burnLiquidity,
                          !.tokensOwed0 = @ + feeAmount0,
                          !.tokensOwed1 = @ + feeAmount1,
                          !.feeGrowthInside0LastX128 = feeGrowthInside0X128,
                          !.feeGrowthInside1LastX128 = feeGrowthInside1X128]
    IN  [err |-> "", amount0 |-> amounts.amount0, amount1 |-> amounts.amount1,
         feeAmount0 |-> feeAmount0, feeAmount1 |-> feeAmount1,
         st |-> [ticks |-> u2.ticks, liquidity |-> newLiquidity,
                 positions |-> IF newPosition.liquidity = 0
                               THEN MapDelete(positions, positionKey)
                               ELSE [positions EXCEPT ![positionKey] = newPosition]]]

burnPosition(positionKey, burnLiquidity) ==
    /\ pc = "idle"
    /\ LET r == BurnOutcome(positionKey, burnLiquidity)
       IN  /\ ticks' = r.st.ticks
           /\ liquidity' = r.st.liquidity
           /\ positions' = r.st.positions
           /\ last' = [NoResult EXCEPT !.op = "burn", !.err = r.err,
                         !.key = positionKey, !.liquidity = burnLiquidity,
                         !.amount0 = r.amount0, !.amount1 = r.amount1,
                         !.feeAmount0 = r.feeAmount0, !.feeAmount1 = r.feeAmount1]
    /\ nOps' = nOps + 1
    /\ UNCHANGED <<sqrtPriceX96, currentTick, feeGrowthGlobal0X128,
                   feeGrowthGlobal1X128, pc, sw, createdLiquidity, flow>>
    /\ ledger' = LedgerAfterCredit(last'.key)
    /\ baseline' = SharedAfter

\* A call of burnPosition made outside executeJitSimulation.
Burn(positionKey, burnLiquidity) ==
    /\ burnPosition(positionKey, burnLiquidity)
    /\ UNCHANGED <<jit, call, ws, bx, bot, metrics>>

\* A collectFees that leaves an empty entry behind for a key it does not find.
CollectOutcomeCreating(positionKey, amount0Max, amount1Max) ==
    IF positionKey \notin DOMAIN positions
    THEN [err |-> "Position not found", amount0 |-> 0, amount1 |-> 0,
          positions |-> MapSet(positions, positionKey,
                               [owner |-> <<>>, tickLower |-> 0,
                                tickUpper |-> 0, liquidity |-> 0,
                                feeGrowthInside0LastX128 |-> 0,
                                feeGrowthInside1LastX128 |-> 0,
                                tokensOwed0 |-> 0, tokensOwed1 |-> 0])]
    ELSE
    LET position == positions[positionKey]
        amount0 == IF amount0Max < position.tokensOwed0
                   THEN amount0Max ELSE position.tokensOwed0
        amount1 == IF amount1Max < position.tokensOwed1
                   THEN amount1Max ELSE position.tokensOwed1
    IN  [err |-> "", amount0 |-> amount0, amount1 |-> amount1,
         positions |-> [positions EXCEPT
                          ![positionKey].tokensOwed0 = @ - amount0,
                          ![positionKey].tokensOwed1 = @ - amount1]]

CollectOutcome(positionKey, amount0Max, amount1Max) ==
    IF positionKey \notin DOMAIN positions
    THEN [err |-> "Position not found", amount0 |-> 0, amount1 |-> 0,
          positions |-> positions]
    ELSE
    LET position == positions[positionKey]
        amount0 == IF amount0Max < position.tokensOwed0
                   THEN amount0Max ELSE position.tokensOwed0
        amount1 == IF amount1Max < position.tokensOwed1
                   THEN amount1Max ELSE position.tokensOwed1
    IN  [err |-> "", amount0 |-> amount0, amount1 |-> amount1,
         positions |-> [positions EXCEPT
                          ![positionKey].tokensOwed0 = @ - amount0,
                          ![positionKey].tokensOwed1 = @ - amount1]]

Collect(positionKey, amount0Max, amount1Max) ==
    /\ pc = "idle"
    /\ LET r == CollectOutcome(positionKey, amount0Max, amount1Max)
       IN  /\ positions' = r.positions
           /\ last' = [NoResult EXCEPT !.op = "collect", !.err = r.err,
                         !.key = positionKey,
                         !.amount0 = r.amount0, !.amount1 = r.amount1]
    /\ nOps' = nOps + 1
    /\ UNCHANGED <<sqrtPriceX96, currentTick, liquidity, feeGrowthGlobal0X128,
                   feeGrowthGlobal1X128, ticks, pc, sw, createdLiquidity, flow, ledger, jit, call, ws,
                   bx, bot, metrics>>
    /\ baseline' = SharedAfter

(***************************************************************************)
(* Swap engine: helpers                                                    *)
(***************************************************************************)
\* The largest amount getNextSqrtPriceFromAmount1RoundingDown shifts
\* instead of dividing by liquidity >> 96 (2^160 - 1 in the source).
MAX_SHIFTED_AMOUNT == (2 ^ 10) - 1

getAmount0Delta(sqrtRatioAX96, sqrtRatioBX96, liq, roundUp) ==
    LET a == LowOf(sqrtRatioAX96, sqrtRatioBX96)
        b == HighOf(sqrtRatioAX96, sqrtRatioBX96)
        numerator1 == Shl(liq, RESOLUTION)
        numerator2 == b - a
    IN  IF roundUp
        THEN Div(numerator1 * numerator2 + b * a - 1, b * a)
        ELSE Div(numerator1 * numerator2, b * a)

getAmount1Delta(sqrtRatioAX96, sqrtRatioBX96, liq, roundUp) ==
    LET a == LowOf(sqrtRatioAX96, sqrtRatioBX96)
        b == HighOf(sqrtRatioAX96, sqrtRatioBX96)
    IN  IF roundUp
        THEN Shr(liq * (b - a) + Q96 - 1, RESOLUTION)
        ELSE Shr(liq * (b - a), RESOLUTION)

\* The next-price helpers return [threw, price]: threw when the BigInt
\* division they perform divides by zero (a RangeError).
Price(p) == [threw |-> FALSE, price |-> p]

DivisionByZero == [threw |-> TRUE, price |-> 0]

getNextSqrtPriceFromAmount0RoundingUp(sqrtPX96, liq, amount, add) ==
    IF amount = 0 THEN Price(sqrtPX96)
    ELSE
    LET numerator1 == Shl(liq, RESOLUTION)
        product == amount * sqrtPX96
    IN  IF add
        THEN IF Div(product, amount) = sqrtPX96 /\ numerator1 + product >= numerator1
             THEN IF numerator1 + product = 0 THEN DivisionByZero
                  ELSE Price(Div(numerator1 * sqrtPX96 + (numerator1 + product) - 1,
                                 numerator1 + product))
             ELSE IF liq = 0 \/ sqrtPX96 = 0 THEN DivisionByZero
                  ELSE Price(Div(numerator1 + Div(amount * sqrtPX96 + sqrtPX96 - 1, sqrtPX96) - 1,
                                 liq) + 1)
        ELSE IF numerator1 - product = 0 THEN DivisionByZero
             ELSE Price(Div(numerator1 * sqrtPX96, numerator1 - product))

getNextSqrtPriceFromAmount1RoundingDown(sqrtPX96, liq, amount, add) ==
    LET divisor == IF amount <= MAX_SHIFTED_AMOUNT THEN liq ELSE Shr(liq, RESOLUTION)
        quotient == IF amount <= MAX_SHIFTED_AMOUNT
                    THEN Div(Shl(amount, RESOLUTION), liq)
                    ELSE Div(amount, Shr(liq, RESOLUTION))
    IN  IF divisor = 0 THEN DivisionByZero
        ELSE IF add THEN Price(sqrtPX96 + quotient)
        ELSE Price(sqrtPX96 - quotient)

getNextSqrtPriceFromInput(sqrtPX96, liq, amountIn, zeroForOne) ==
    IF zeroForOne
    THEN getNextSqrtPriceFromAmount0RoundingUp(sqrtPX96, liq, amountIn, TRUE)
    ELSE getNextSqrtPriceFromAmount1RoundingDown(sqrtPX96, liq, amountIn, TRUE)

getNextSqrtPriceFromOutput(sqrtPX96, liq, amountOut, zeroForOne) ==
    IF zeroForOne
    THEN getNextSqrtPriceFromAmount1RoundingDown(sqrtPX96, liq, amountOut, FALSE)
    ELSE getNextSqrtPriceFromAmount0RoundingUp(sqrtPX96, liq, amountOut, FALSE)

\* computeSwapStep, first half: the price the step ends at.
StepAmountInToTarget(sqrtPriceCurrentX96, sqrtPriceTargetX96, liq, amountRemaining) ==
    IF amountRemaining < 0 THEN 0
    ELSE IF sqrtPriceCurrentX96 >= sqrtPriceTargetX96
    THEN getAmount0Delta(sqrtPriceTargetX96, sqrtPriceCurrentX96, liq, TRUE)
    ELSE getAmount1Delta(sqrtPriceCurrentX96, sqrtPriceTargetX96, liq, TRUE)

StepAmountOutToTarget(sqrtPriceCurrentX96, sqrtPriceTargetX96, liq, amountRemaining) ==
    IF amountRemaining >= 0 THEN 0
    ELSE IF sqrtPriceCurrentX96 >= sqrtPriceTargetX96
    THEN getAmount1Delta(sqrtPriceTargetX96, sqrtPriceCurrentX96, liq, FALSE)
    ELSE getAmount0Delta(sqrtPriceCurrentX96, sqrtPriceTargetX96, liq, FALSE)

StepNextPrice(sqrtPriceCurrentX96, sqrtPriceTargetX96, liq, amountRemaining, feeTier) ==
    LET zeroForOne == sqrtPriceCurrentX96 >= sqrtPriceTargetX96
        exactIn == amountRemaining >= 0
        amountRemainingLessFee ==
            Div(amountRemaining * (FEE_DENOMINATOR - feeTier), FEE_DENOMINATOR)
    IN  IF exactIn
        THEN IF amountRemainingLessFee >=
                  StepAmountInToTarget(sqrtPriceCurrentX96, sqrtPriceTargetX96,
                                       liq, amountRemaining)
             THEN Price(sqrtPriceTargetX96)
             ELSE getNextSqrtPriceFromInput(sqrtPriceCurrentX96, liq,
                                            amountRemainingLessFee, zeroForOne)
        ELSE IF -amountRemaining >=
                  StepAmountOutToTarget(sqrtPriceCurrentX96, sqrtPriceTargetX96,
                                        liq, amountRemaining)
             THEN Price(sqrtPriceTargetX96)
             ELSE getNextSqrtPriceFromOutput(sqrtPriceCurrentX96, liq,
                                             -amountRemaining, zeroForOne)

\* A fee that is always the fee tier's share of amountIn.
StepFeeProportional(amountRemaining, amountIn, feeTier, sqrtPriceNextX96, sqrtPriceTargetX96) ==
    Div(amountIn * feeTier, FEE_DENOMINATOR - feeTier)

\* computeSwapStep, the fee: what is left of the remaining amount when an
\* exact-input step stops short of its target, the fee tier's share of
\* amountIn otherwise.
StepFee(amountRemaining, amountIn, feeTier, sqrtPriceNextX96, sqrtPriceTargetX96) ==
    IF amountRemaining >= 0 /\ sqrtPriceNextX96 # sqrtPriceTargetX96
    THEN amountRemaining - amountIn
    ELSE Div(amountIn * feeTier, FEE_DENOMINATOR - feeTier)

\* computeSwapStep, second half: the amounts and the fee once the price the
\* step ends at is known.
StepAmounts(sqrtPriceCurrentX96, sqrtPriceTargetX96, liq, amountRemaining, feeTier, sqrtPriceNextX96) ==
    LET zeroForOne == sqrtPriceCurrentX96 >= sqrtPriceTargetX96
        exactIn == amountRemaining >= 0
        max == sqrtPriceTargetX96 = sqrtPriceNextX96
        amountIn ==
            IF max /\ exactIn
            THEN StepAmountInToTarget(sqrtPriceCurrentX96, sqrtPriceTargetX96,
                                      liq, amountRemaining)
            ELSE IF zeroForOne
            THEN getAmount0Delta(sqrtPriceNextX96, sqrtPriceCurrentX96, liq, TRUE)
            ELSE getAmount1Delta(sqrtPriceCurrentX96, sqrtPriceNextX96, liq, TRUE)
        amountOutRaw ==
            IF max /\ ~exactIn
            THEN StepAmountOutToTarget(sqrtPriceCurrentX96, sqrtPriceTargetX96,
                                       liq, amountRemaining)
            ELSE IF zeroForOne
            THEN getAmount1Delta(sqrtPriceNextX96, sqrtPriceCurrentX96, liq, FALSE)
            ELSE getAmount0Delta(sqrtPriceCurrentX96, sqrtPriceNextX96, liq, FALSE)
    IN  [threw |-> FALSE,
         sqrtPriceNextX96 |-> sqrtPriceNextX96,
         amountIn |-> amountIn,
         amountOut |-> IF ~exactIn /\ amountOutRaw > -amountRemaining
                       THEN -amountRemaining ELSE amountOutRaw,
         feeAmount |-> StepFee(amountRemaining, amountIn, feeTier,
                               sqrtPriceNextX96, sqrtPriceTargetX96)]

StepFrom(sqrtPriceCurrentX96, sqrtPriceTargetX96, liq, amountRemaining, feeTier, next) ==
    IF next.threw \/ next.price = 0
    THEN [threw |-> TRUE, sqrtPriceNextX96 |-> sqrtPriceCurrentX96,
          amountIn |-> 0, amountOut |-> 0, feeAmount |-> 0]
    ELSE StepAmounts(sqrtPriceCurrentX96, sqrtPriceTargetX96, liq, amountRemaining,
                     feeTier, next.price)

\* computeSwapStep: [threw, sqrtPriceNextX96, amountIn, amountOut, feeAmount].
computeSwapStep(sqrtPriceCurrentX96, sqrtPriceTargetX96, liq, amountRemaining, feeTier) ==
    CHOOSE step \in
        {StepFrom(sqrtPriceCurrentX96, sqrtPriceTargetX96, liq, amountRemaining,
                  feeTier, next) :
            next \in {StepNextPrice(sqrtPriceCurrentX96, sqrtPriceTargetX96, liq,
                                    amountRemaining, feeTier)}} : TRUE

TickInitialized(tks, t) == t \in DOMAIN tks /\ tks[t].initialized

\* The scan loops of getNextInitializedTick, i iterations done.
RECURSIVE ScanLeft(_, _, _)
ScanLeft(tks, tickNext, i) ==
    IF i = SCAN_LIMIT THEN [tickNext |-> tickNext, initialized |-> FALSE]
    ELSE IF TickInitialized(tks, tickNext)
    THEN [tickNext |-> tickNext, initialized |-> TRUE]
    ELSE IF tickNext - TickSpacing < MIN_TICK
    THEN [tickNext |-> MIN_TICK, initialized |-> FALSE]
    ELSE ScanLeft(tks, tickNext - TickSpacing, i + 1)

RECURSIVE ScanRight(_, _, _)
ScanRight(tks, tickNext, i) ==
    IF i = SCAN_LIMIT THEN [tickNext |-> tickNext, initialized |-> FALSE]
    ELSE IF TickInitialized(tks, tickNext)
    THEN [tickNext |-> tickNext, initialized |-> TRUE]
    ELSE IF tickNext + TickSpacing > MAX_TICK
    THEN [tickNext |-> MAX_TICK, initialized |-> FALSE]
    ELSE ScanRight(tks, tickNext + TickSpacing, i + 1)

\* Math.floor(x / s) * s and Math.ceil(x / s) * s start the scans.
getNextInitializedTick(tks, curTick, zeroForOne) ==
    IF zeroForOne
    THEN ScanLeft(tks, (curTick \div TickSpacing) * TickSpacing, 0)
    ELSE ScanRight(tks, (-((-curTick) \div TickSpacing)) * TickSpacing, 0)

\* crossTick: the tick map with the tick's feeGrowthOutside flipped.
crossTick(tks, fg0, fg1, tick) ==
    IF tick \notin DOMAIN tks THEN tks
    ELSE [tks EXCEPT ![tick].feeGrowthOutside0X128 = fg0 - @,
                     ![tick].feeGrowthOutside1X128 = fg1 - @]

crossTickLiquidityNet(tks, tick) ==
    IF tick \notin DOMAIN tks THEN 0 ELSE tks[tick].liquidityNet

(***************************************************************************)
(* executeSwap                                                             *)
(***************************************************************************)
\* params.sqrtPriceLimitX96 || (zeroForOne ? MIN_SQRT_RATIO + 1 : MAX_SQRT_RATIO)
DefaultedLimit(zeroForOne, sqrtPriceLimitX96) ==
    IF sqrtPriceLimitX96 # 0 THEN sqrtPriceLimitX96
    ELSE IF zeroForOne THEN MIN_SQRT_RATIO + 1 ELSE MAX_SQRT_RATIO

\* The loop condition of executeSwap.
SwapLoopRuns ==
    /\ sw.amountSpecifiedRemaining # 0
    /\ sw.currentSqrtPriceX96 # sw.sqrtPriceLimitX96

\* Entry of executeSwap: the locals are loaded from the pool.
executeSwapEntry(zeroForOne, amountSpecified, sqrtPriceLimitX96) ==
    /\ pc = "idle"
    /\ pc' = "swap"
    /\ sw' = [zeroForOne |-> zeroForOne,
              amountSpecified |-> amountSpecified,
              sqrtPriceLimitX96 |-> DefaultedLimit(zeroForOne, sqrtPriceLimitX96),
              currentSqrtPriceX96 |-> sqrtPriceX96,
              currentTickValue |-> currentTick,
              currentLiquidity |-> liquidity,
              amountSpecifiedRemaining |-> amountSpecified,
              amountCalculated |-> 0,
              feeAmount |-> 0,
              steps |-> 0]
    /\ nOps' = nOps + 1
    /\ UNCHANGED <<pool, last, createdLiquidity, flow, ledger, baseline>>

\* A call of executeSwap made outside executeJitSimulation.
SwapBegin(zeroForOne, amountSpecified, sqrtPriceLimitX96) ==
    /\ executeSwapEntry(zeroForOne, amountSpecified, sqrtPriceLimitX96)
    /\ UNCHANGED <<jit, call, ws, bx, bot, metrics>>

\* The step's target: the next tick's price, clamped to the limit.
SwapTarget(sqrtPriceNextX96) ==
    IF (IF sw.zeroForOne THEN sqrtPriceNextX96 < sw.sqrtPriceLimitX96
        ELSE sqrtPriceNextX96 > sw.sqrtPriceLimitX96)
    THEN sw.sqrtPriceLimitX96 ELSE sqrtPriceNextX96

\* currentTickValue once a step has ended on the next tick's price.
TickReached(tickNext) == IF sw.zeroForOne THEN tickNext - 1 ELSE tickNext

\* The rest of a loop iteration once computeSwapStep has returned c for the
\* next tick ni, fg0 and fg1 being the fee growth after the step's fee.
SwapStepApplied(ni, c, fg0, fg1) ==
    LET reached == c.sqrtPriceNextX96 = getSqrtRatioAtTick(ni.tickNext)
        crossing == reached /\ ni.initialized
        liquidityNet == crossTickLiquidityNet(ticks, ni.tickNext)
    IN
    IF ~reached /\ ~SqrtRatioInBounds(c.sqrtPriceNextX96)
    THEN [threw |-> TRUE, fg0 |-> fg0, fg1 |-> fg1, ticks |-> ticks, sw |-> sw]
    ELSE
    [threw |-> FALSE, fg0 |-> fg0, fg1 |-> fg1,
     ticks |-> IF crossing THEN crossTick(ticks, fg0, fg1, ni.tickNext) ELSE ticks,
     sw |-> [sw EXCEPT
               !.currentSqrtPriceX96 = c.sqrtPriceNextX96,
               !.amountSpecifiedRemaining = @ - (c.amountIn + c.feeAmount),
               !.amountCalculated = @ + c.amountOut,
               !.feeAmount = @ + c.feeAmount,
               !.currentLiquidity =
                   IF crossing
                   THEN IF sw.zeroForOne THEN @ - liquidityNet ELSE @ + liquidityNet
                   ELSE @,
               !.currentTickValue =
                   IF reached THEN TickReached(ni.tickNext)
                   ELSE getTickAtSqrtRatio(c.sqrtPriceNextX96),
               !.steps = Min2(@ + 1, MaxSwapSteps)]]

\* A fee-growth update that takes the step's fee off the accumulator.
FeeGrowthAfterCharged(fg, c, thisToken) ==
    IF thisToken /\ sw.currentLiquidity > 0
    THEN fg - Div(Shl(c.feeAmount, FG_RESOLUTION), sw.currentLiquidity)
    ELSE fg

\* The fee-growth update of a loop iteration.
FeeGrowthAfter(fg, c, thisToken) ==
    IF thisToken /\ sw.currentLiquidity > 0
    THEN fg + Div(Shl(c.feeAmount, FG_RESOLUTION), sw.currentLiquidity)
    ELSE fg

SwapStepComputed(ni, c) ==
    IF c.threw
    THEN [threw |-> TRUE, fg0 |-> feeGrowthGlobal0X128, fg1 |-> feeGrowthGlobal1X128,
          ticks |-> ticks, sw |-> sw]
    ELSE SwapStepApplied(ni, c,
             FeeGrowthAfter(feeGrowthGlobal0X128, c, sw.zeroForOne),
             FeeGrowthAfter(feeGrowthGlobal1X128, c, ~sw.zeroForOne))

SwapStepAt(ni) ==
    CHOOSE r \in
        {SwapStepComputed(ni, c) :
            c \in {computeSwapStep(sw.currentSqrtPriceX96,
                                   SwapTarget(getSqrtRatioAtTick(ni.tickNext)),
                                   sw.currentLiquidity,
                                   sw.amountSpecifiedRemaining, FeeTier)}} : TRUE

\* One iteration of the loop of executeSwap.
SwapStepOutcome ==
    CHOOSE r \in
        {SwapStepAt(ni) :
            ni \in {getNextInitializedTick(ticks, sw.currentTickValue,
                                           sw.zeroForOne)}} : TRUE

\* The iteration about to run leaves the pool and every local of the loop
\* as they are: the loop condition holds again after it, for ever.
SwapStepRepeats ==
    \E r \in {SwapStepOutcome} :
        /\ ~r.threw
        /\ r.sw = sw
        /\ r.ticks = ticks
        /\ r.fg0 = feeGrowthGlobal0X128
        /\ r.fg1 = feeGrowthGlobal1X128

\* The loop condition holds: the body is entered.
SwapLoopTest ==
    /\ pc = "swap"
    /\ SwapLoopRuns
    /\ sw.steps < MaxSwapSteps \/ SwapStepRepeats
    /\ pc' = "step"
    /\ UNCHANGED <<pool, sw, last, createdLiquidity, nOps, flow, ledger, baseline, jit, call, ws,
                 bx, bot, metrics>>

\* The body of the loop.
SwapStep ==
    /\ pc = "step"
    /\ \E r \in {SwapStepOutcome} :
           /\ feeGrowthGlobal0X128' = r.fg0
           /\ feeGrowthGlobal1X128' = r.fg1
           /\ ticks' = r.ticks
           /\ IF r.threw
              THEN /\ pc' = "idle"
                   /\ sw' = NoSwap
                   /\ last' = [NoResult EXCEPT !.op = "swap", !.err = "RangeError"]
              ELSE /\ pc' = "swap"
                   /\ sw' = r.sw
                   /\ last' = last
    /\ UNCHANGED <<sqrtPriceX96, currentTick, liquidity, positions,
                   createdLiquidity, nOps, flow, ledger, jit, call, ws,
                   bx, bot, metrics>>
    /\ baseline' = SharedAfter

\* Loop exit of executeSwap: the cursor is written back and the result built.
SwapEnd ==
    /\ pc = "swap"
    /\ ~SwapLoopRuns
    /\ sqrtPriceX96' = sw.currentSqrtPriceX96
    /\ currentTick' = sw.currentTickValue
    /\ liquidity' = sw.currentLiquidity
    /\ last' = [NoResult EXCEPT
                  !.op = "swap",
                  !.amount0 = IF sw.zeroForOne
                              THEN sw.amountSpecified - sw.amountSpecifiedRemaining
                              ELSE -sw.amountCalculated,
                  !.amount1 = IF sw.zeroForOne
                              THEN -sw.amountCalculated
                              ELSE sw.amountSpecified - sw.amountSpecifiedRemaining,
                  !.sqrtPriceX96 = sw.currentSqrtPriceX96,
                  !.liquidity = sw.currentLiquidity,
                  !.tick = sw.currentTickValue,
                  !.feeAmount = sw.feeAmount]
    /\ flow' = IF flow.tracking
               THEN [flow EXCEPT !.amount0 = @ + last'.amount0,
                                 !.amount1 = @ + last'.amount1,
                                 !.swaps = @ + 1]
               ELSE flow
    /\ ledger' = IF ~ledger.tracking THEN ledger
                 ELSE IF sw.zeroForOne
                 THEN [ledger EXCEPT !.charged0 = @ + sw.feeAmount]
                 ELSE [ledger EXCEPT !.charged1 = @ + sw.feeAmount]
    /\ pc' = "idle"
    /\ sw' = NoSwap
    /\ UNCHANGED <<feeGrowthGlobal0X128, feeGrowthGlobal1X128, ticks, positions,
                   createdLiquidity, nOps, jit, call, ws, bx, bot,
                   metrics>>
    /\ baseline' = SharedAfter

(***************************************************************************)
(* The pool as a state machine                                             *)
(***************************************************************************)
PositionKeys == {getPositionKey(o, r[1], r[2]) : o \in Owners, r \in KeyRanges}

FeePositionKeys ==
    {getPositionKey(o, m[1], m[2]) : o \in Owners, m \in FeeMintRequests}

\* Liquidity a caller may ask burnPosition to remove from a position.
BurnChoices(positionKey) ==
    IF positionKey \in DOMAIN positions
    THEN {positions[positionKey].liquidity,
          positions[positionKey].liquidity \div 2,
          positions[positionKey].liquidity + 1}
    ELSE {1}

\* Any call on the pool, any number of loop iterations of a swap.
Next ==
    \/ /\ nOps < MaxOps
       /\ \E o \in Owners, m \in MintRequests : Mint(o, m[1], m[2], m[3], m[4])
    \/ /\ nOps < MaxOps
       /\ \E k \in PositionKeys : \E b \in BurnChoices(k) : Burn(k, b)
    \/ /\ nOps < MaxOps
       /\ \E k \in PositionKeys, a \in CollectAmounts : Collect(k, a, a)
    \/ /\ nOps < MaxOps
       /\ \E z \in BOOLEAN, a \in SwapAmounts, l \in SwapLimits : SwapBegin(z, a, l)
    \/ SwapLoopTest
    \/ SwapStep
    \/ SwapEnd

Spec == Init /\ [][Next]_vars

\* Mints and swaps only: the pools a swap can run on.
LoopNext ==
    \/ /\ nOps < MaxOps
       /\ \E o \in Owners, m \in MintRequests : Mint(o, m[1], m[2], m[3], m[4])
    \/ /\ nOps < MaxOps
       /\ \E z \in BOOLEAN, a \in SwapAmounts, l \in SwapLimits : SwapBegin(z, a, l)
    \/ SwapLoopTest
    \/ SwapStep
    \/ SwapEnd

\* executeSwap is a synchronous loop: once entered it keeps iterating, and
\* once its loop condition fails it returns.
LoopSpec ==
    Init /\ [][LoopNext]_vars
         /\ WF_vars(SwapLoopTest) /\ WF_vars(SwapStep) /\ WF_vars(SwapEnd)

\* The fee lifecycle of one position, followed over MaxFeeOps calls: mints
\* into one range, swaps without a caller limit, partial burns, collects.
FeeNext ==
    \/ /\ nOps < MaxFeeOps
       /\ \E o \in Owners, m \in FeeMintRequests : Mint(o, m[1], m[2], m[3], m[4])
    \/ /\ nOps < MaxFeeOps
       /\ \E k \in FeePositionKeys :
              k \in DOMAIN positions /\ Burn(k, positions[k].liquidity \div 2)
    \/ /\ nOps < MaxFeeOps
       /\ \E k \in FeePositionKeys, a \in CollectAmounts : Collect(k, a, a)
    \/ /\ nOps < MaxFeeOps
       /\ \E z \in BOOLEAN, a \in FeeSwapAmounts : SwapBegin(z, a, 0)
    \/ SwapLoopTest
    \/ SwapStep
    \/ SwapEnd

FeeSpec == Init /\ [][FeeNext]_vars

\* Positions are minted, then left alone while swaps run against them; the
\* amounts the swaps return are summed.
FlowNext ==
    \/ /\ nOps < MaxFlowOps
       /\ flow.swaps = 0
       /\ \E o \in Owners, m \in MintRequests : Mint(o, m[1], m[2], m[3], m[4])
    \/ /\ nOps < MaxFlowOps
       /\ \E z \in BOOLEAN, a \in SwapAmounts, l \in SwapLimits : SwapBegin(z, a, l)
    \/ SwapLoopTest
    \/ SwapStep
    \/ SwapEnd

FlowSpec == FlowInit /\ [][FlowNext]_vars

(***************************************************************************)
(* clonePoolState                                                          *)
(***************************************************************************)
\* A copy that builds new maps over the TickInfo and PositionInfo objects of
\* the original: every entry is shared.
clonePoolStateShallow ==
    [cloned |-> TRUE, side |-> 0, pool |-> pool, whole |-> FALSE,
     ticksShared |-> DOMAIN ticks, positionsShared |-> DOMAIN positions]

\* clonePoolState: the scalar fields are copied by the spread, both maps are
\* rebuilt with a spread copy of every entry, so no entry is shared.
clonePoolState ==
    [cloned |-> TRUE, side |-> 0, pool |-> pool, whole |-> FALSE,
     ticksShared |-> {}, positionsShared |-> {}]

\* c = clonePoolState(s): from here on there are two PoolStates.
Clone ==
    /\ pc = "idle"
    /\ ~baseline.cloned
    /\ baseline' = clonePoolState
    /\ UNCHANGED <<pool, pc, sw, last, createdLiquidity, nOps, flow, ledger, jit, call, ws,
                 bx, bot, metrics>>

\* The caller turns to the other PoolState: the calls that follow are made
\* on it.
UseOther ==
    /\ pc = "idle"
    /\ baseline.cloned
    /\ sqrtPriceX96' = baseline.pool[1]
    /\ currentTick' = baseline.pool[2]
    /\ liquidity' = baseline.pool[3]
    /\ feeGrowthGlobal0X128' = baseline.pool[4]
    /\ feeGrowthGlobal1X128' = baseline.pool[5]
    /\ ticks' = baseline.pool[6]
    /\ positions' = baseline.pool[7]
    /\ baseline' = [baseline EXCEPT !.pool = pool, !.side = 1 - @]
    /\ UNCHANGED <<pc, sw, last, createdLiquidity, nOps, flow, ledger, jit, call, ws, bx,
                 bot, metrics>>

ClonePositionKeys ==
    {getPositionKey(o, m[1], m[2]) : o \in Owners, m \in CloneMintRequests}

\* Calls on a pool, one clonePoolState at any point between them, and calls
\* on either PoolState afterwards.
CloneNext ==
    \/ /\ nOps < MaxCloneOps
       /\ \E o \in Owners, m \in CloneMintRequests : Mint(o, m[1], m[2], m[3], m[4])
    \/ /\ nOps < MaxCloneOps
       /\ \E k \in ClonePositionKeys : \E b \in BurnChoices(k) : Burn(k, b)
    \/ /\ nOps < MaxCloneOps
       /\ \E k \in ClonePositionKeys, a \in CollectAmounts : Collect(k, a, a)
    \/ /\ nOps < MaxCloneOps
       /\ \E z \in BOOLEAN, a \in CloneSwapAmounts : SwapBegin(z, a, 0)
    \/ SwapLoopTest
    \/ SwapStep
    \/ SwapEnd
    \/ Clone
    \/ UseOther

CloneSpec == Init /\ [][CloneNext]_vars

(***************************************************************************)
(* executeJitSimulation                                                    *)
(***************************************************************************)
\* A simulation that runs on params.poolState itself.
JitSimulationStateUncloned ==
    [cloned |-> TRUE, side |-> 0, pool |-> pool, whole |-> TRUE,
     ticksShared |-> DOMAIN ticks, positionsShared |-> DOMAIN positions]

\* simulationState = clonePoolState(params.poolState).  The variables of
\* the pool are simulationState from here on; baseline holds
\* params.poolState.
JitSimulationState == clonePoolState

\* recipient: 'jit-bot' of the mint executeJitSimulation makes.
JitRecipient == <<"j", "i", "t", "-", "b", "o", "t">>

\* Step 1 of executeJitSimulation: the pool state is cloned and the step
\* logged.
JitPrepare(tickLower, tickUpper, swapParams) ==
    /\ pc = "idle"
    /\ jit.step = "none"
    /\ baseline' = JitSimulationState
    /\ \E liquidityAmount \in JitLiquidityAmounts :
           jit' = [NoJit EXCEPT !.step = "mint_position", !.tickLower = tickLower,
                                !.tickUpper = tickUpper, !.swapParams = swapParams,
                                !.liquidityAmount = liquidityAmount,
                                !.steps = <<"prepare_simulation">>]
    /\ UNCHANGED <<pool, pc, sw, last, createdLiquidity, nOps, flow, ledger, call, ws, bx,
                 bot, metrics>>

\* A step of executeJitSimulation has returned: it is logged and the next
\* one is due.
JitLogged(next) ==
    [jit EXCEPT !.steps = Append(@, jit.step), !.step = next]

\* A catch block that returns the failure without logging it.
JitCaughtUnlogged ==
    [jit EXCEPT !.step = "error",
                !.returned = TRUE, !.success = FALSE,
                !.grossFeesToken0 = 0, !.grossFeesToken1 = 0,
                !.liquidityDeployed = 0]

\* The catch block: the 'error' step is logged and the failure returned.
JitCaught ==
    [jit EXCEPT !.steps = Append(@, "error"), !.step = "error",
                !.returned = TRUE, !.success = FALSE,
                !.grossFeesToken0 = 0, !.grossFeesToken1 = 0,
                !.liquidityDeployed = 0]

\* Steps 2 to 5 of executeJitSimulation: the next call it makes on
\* simulationState, or the catch block once a call has thrown.  The loop
\* of the swap runs between step 3 and step 4, so 'execute_swap' is logged
\* when the burn is reached.  Step 5 throws when the profit in wei is no
\* finite number (BigInt(NaN) is a RangeError).
JitCall ==
    /\ pc = "idle"
    /\ CASE jit.step = "mint_position" ->
              /\ mintPosition(JitRecipient, jit.tickLower, jit.tickUpper,
                              JIT_AMOUNT_MAX, JIT_AMOUNT_MAX)
              /\ jit' = IF last'.err = ""
                        THEN [JitLogged("execute_swap") EXCEPT
                                !.positionKey = last'.key,
                                !.liquidity = last'.liquidity]
                        ELSE JitCaught
         [] jit.step = "execute_swap" ->
              /\ executeSwapEntry(jit.swapParams[1], jit.swapParams[2],
                                  jit.swapParams[3])
              /\ jit' = [jit EXCEPT !.step = "burn_position"]
         [] jit.step = "burn_position" /\ last.err = "" ->
              /\ burnPosition(jit.positionKey, jit.liquidity)
              /\ jit' = IF last'.err = ""
                        THEN [jit EXCEPT
                                !.steps = @ \o <<"execute_swap", "burn_position">>,
                                !.step = "calculate_profit",
                                !.grossFeesToken0 = last'.feeAmount0,
                                !.grossFeesToken1 = last'.feeAmount1]
                        ELSE [JitCaught EXCEPT
                                !.steps = jit.steps \o <<"execute_swap", "error">>]
         [] jit.step = "burn_position" /\ last.err # "" ->
              /\ jit' = JitCaught
              /\ UNCHANGED <<pool, pc, sw, last, createdLiquidity, nOps, flow, ledger,
                             baseline>>
         [] jit.step = "calculate_profit" ->
              /\ \E finite \in BOOLEAN :
                     jit' = IF finite
                            THEN [JitLogged("returned") EXCEPT
                                    !.returned = TRUE, !.success = TRUE,
                                    !.liquidityDeployed = jit.liquidity]
                            ELSE JitCaught
              /\ UNCHANGED <<pool, pc, sw, last, createdLiquidity, nOps, flow, ledger,
                             baseline>>
         [] OTHER -> FALSE
    /\ UNCHANGED <<call, ws, bx, bot, metrics>>

\* A pool is built by a few calls, then handed to executeJitSimulation.
JitNext ==
    \/ /\ nOps < MaxJitSetup /\ jit.step = "none"
       /\ \E o \in Owners, m \in CloneMintRequests : Mint(o, m[1], m[2], m[3], m[4])
    \/ /\ nOps < MaxJitSetup /\ jit.step = "none"
       /\ \E z \in BOOLEAN, a \in CloneSwapAmounts : SwapBegin(z, a, 0)
    \/ SwapLoopTest
    \/ SwapStep
    \/ SwapEnd
    \/ \E r \in JitRanges, p \in JitSwaps : JitPrepare(r[1], r[2], p)
    \/ JitCall

JitSpec == Init /\ [][JitNext]_vars

\* Any call on the pool, with the account of the fees kept.
LedgerSpec == LedgerInit /\ [][Next]_vars

(***************************************************************************)
(* Calls of the math functions                                             *)
(***************************************************************************)
\* Ticks handed to the tick functions, three beyond the bounds either way.
MathTickMargin == 3

MathTicks == (MIN_TICK - MathTickMargin)..(MAX_TICK + MathTickMargin)

\* Sqrt prices handed to getTickAtSqrtRatio, beyond the bounds either way.
MathPrices == (MIN_SQRT_RATIO - 2)..(MAX_SQRT_RATIO + 1)

\* Spacings handed to nearestUsableTick: not positive, small, and wider
\* than the tick range.
MathSpacings == {-1, 0, 1, 2, 3, 4, 7, 12}

CallReturned(fn, args, value) ==
    [fn |-> fn, args |-> args, threw |-> FALSE, err |-> "", result |-> value]

CallThrew(fn, args, message) ==
    [fn |-> fn, args |-> args, threw |-> TRUE, err |-> message, result |-> 0]

CallGetSqrtRatioAtTick(tick) ==
    /\ call' = IF ~TickInBounds(tick)
               THEN CallThrew("getSqrtRatioAtTick", <<tick>>, "Tick out of bounds")
               ELSE CallReturned("getSqrtRatioAtTick", <<tick>>, getSqrtRatioAtTick(tick))
    /\ UNCHANGED <<pool, pc, sw, last, createdLiquidity, nOps, flow, ledger, baseline, jit, ws,
                 bx, bot, metrics>>

CallGetTickAtSqrtRatio(price) ==
    /\ call' = IF ~SqrtRatioInBounds(price)
               THEN CallThrew("getTickAtSqrtRatio", <<price>>, "SqrtPriceX96 out of bounds")
               ELSE CallReturned("getTickAtSqrtRatio", <<price>>, getTickAtSqrtRatio(price))
    /\ UNCHANGED <<pool, pc, sw, last, createdLiquidity, nOps, flow, ledger, baseline, jit, ws,
                 bx, bot, metrics>>

CallNearestUsableTick(tick, tickSpacing) ==
    /\ call' = IF tickSpacing <= 0
               THEN CallThrew("nearestUsableTick", <<tick, tickSpacing>>,
                          "Tick spacing must be positive")
               ELSE CallReturned("nearestUsableTick", <<tick, tickSpacing>>,
                             nearestUsableTick(tick, tickSpacing))
    /\ UNCHANGED <<pool, pc, sw, last, createdLiquidity, nOps, flow, ledger, baseline, jit, ws,
                 bx, bot, metrics>>

\* Boundary prices handed to the liquidity functions, in either order and
\* equal; the current price of liquidityForAmounts and of
\* getAmountsForLiquidity, below, on, between and above them.
LiquidityPrices == {12, 16, 20}

CurrentPrices == {10, 12, 14, 16, 18, 20, 22}

\* amount0, amount1 or liquidity of a call.
LiquidityAmounts == {0, 3, 10}

\* <<amount0, amount1>> of a liquidityForAmounts call.
AmountPairs == {<<0, 0>>, <<3, 10>>, <<10, 3>>}

CallLiquidityFromToken0(sqrtRatioAX96, sqrtRatioBX96, amount0) ==
    /\ call' = IF sqrtRatioAX96 = sqrtRatioBX96
               THEN CallThrew("liquidityFromToken0",
                              <<sqrtRatioAX96, sqrtRatioBX96, amount0>>, "Division by zero")
               ELSE CallReturned("liquidityFromToken0",
                                 <<sqrtRatioAX96, sqrtRatioBX96, amount0>>,
                                 liquidityFromToken0(sqrtRatioAX96, sqrtRatioBX96, amount0))
    /\ UNCHANGED <<pool, pc, sw, last, createdLiquidity, nOps, flow, ledger, baseline, jit, ws,
                 bx, bot, metrics>>

CallLiquidityFromToken1(sqrtRatioAX96, sqrtRatioBX96, amount1) ==
    /\ call' = IF sqrtRatioAX96 = sqrtRatioBX96
               THEN CallThrew("liquidityFromToken1",
                              <<sqrtRatioAX96, sqrtRatioBX96, amount1>>, "Division by zero")
               ELSE CallReturned("liquidityFromToken1",
                                 <<sqrtRatioAX96, sqrtRatioBX96, amount1>>,
                                 liquidityFromToken1(sqrtRatioAX96, sqrtRatioBX96, amount1))
    /\ UNCHANGED <<pool, pc, sw, last, createdLiquidity, nOps, flow, ledger, baseline, jit, ws,
                 bx, bot, metrics>>

\* Either single-token formula divides by the width of the range it is
\* given, which is zero only when the two boundary prices are equal.
CallLiquidityForAmounts(sqrtRatioCurrentX96, sqrtRatioAX96, sqrtRatioBX96, amount0, amount1) ==
    /\ call' = IF sqrtRatioAX96 = sqrtRatioBX96
               THEN CallThrew("liquidityForAmounts",
                              <<sqrtRatioCurrentX96, sqrtRatioAX96, sqrtRatioBX96,
                                amount0, amount1>>, "Division by zero")
               ELSE CallReturned("liquidityForAmounts",
                                 <<sqrtRatioCurrentX96, sqrtRatioAX96, sqrtRatioBX96,
                                   amount0, amount1>>,
                                 liquidityForAmounts(sqrtRatioCurrentX96, sqrtRatioAX96,
                                                     sqrtRatioBX96, amount0, amount1))
    /\ UNCHANGED <<pool, pc, sw, last, createdLiquidity, nOps, flow, ledger, baseline, jit, ws,
                 bx, bot, metrics>>

CallGetAmountsForLiquidity(sqrtRatioCurrentX96, sqrtRatioAX96, sqrtRatioBX96, liq) ==
    /\ call' = CallReturned("getAmountsForLiquidity",
                            <<sqrtRatioCurrentX96, sqrtRatioAX96, sqrtRatioBX96, liq>>,
                            getAmountsForLiquidity(sqrtRatioCurrentX96, sqrtRatioAX96,
                                                   sqrtRatioBX96, liq))
    /\ UNCHANGED <<pool, pc, sw, last, createdLiquidity, nOps, flow, ledger, baseline, jit, ws,
                 bx, bot, metrics>>

CallGetAmount0ForLiquidity(sqrtRatioAX96, sqrtRatioBX96, liq) ==
    /\ call' = CallReturned("getAmount0ForLiquidity",
                            <<sqrtRatioAX96, sqrtRatioBX96, liq>>,
                            getAmount0ForLiquidity(sqrtRatioAX96, sqrtRatioBX96, liq))
    /\ UNCHANGED <<pool, pc, sw, last, createdLiquidity, nOps, flow, ledger, baseline, jit, ws,
                 bx, bot, metrics>>

CallGetAmount1ForLiquidity(sqrtRatioAX96, sqrtRatioBX96, liq) ==
    /\ call' = CallReturned("getAmount1ForLiquidity",
                            <<sqrtRatioAX96, sqrtRatioBX96, liq>>,
                            getAmount1ForLiquidity(sqrtRatioAX96, sqrtRatioBX96, liq))
    /\ UNCHANGED <<pool, pc, sw, last, createdLiquidity, nOps, flow, ledger, baseline, jit, ws,
                 bx, bot, metrics>>

\* The price a getSqrtRatioAtTick call has just returned, if any.
ReturnedPrices ==
    IF call.fn = "getSqrtRatioAtTick" /\ ~call.threw THEN {call.result} ELSE {}

\* Any call of a math function on any of the inputs, one after another;
\* getTickAtSqrtRatio is also called on what getSqrtRatioAtTick returned.
MathNext ==
    \/ \E tick \in MathTicks : CallGetSqrtRatioAtTick(tick)
    \/ \E price \in MathPrices \cup ReturnedPrices : CallGetTickAtSqrtRatio(price)
    \/ \E tick \in MathTicks, s \in MathSpacings : CallNearestUsableTick(tick, s)
    \/ \E a \in LiquidityPrices, b \in LiquidityPrices, amount \in LiquidityAmounts :
           CallLiquidityFromToken0(a, b, amount)
    \/ \E a \in LiquidityPrices, b \in LiquidityPrices, amount \in LiquidityAmounts :
           CallLiquidityFromToken1(a, b, amount)
    \/ \E c \in CurrentPrices, a \in LiquidityPrices, b \in LiquidityPrices,
          amounts \in AmountPairs :
           CallLiquidityForAmounts(c, a, b, amounts[1], amounts[2])
    \/ \E c \in CurrentPrices, a \in LiquidityPrices, b \in LiquidityPrices,
          liq \in LiquidityAmounts :
           CallGetAmountsForLiquidity(c, a, b, liq)
    \/ \E a \in LiquidityPrices, b \in LiquidityPrices, liq \in LiquidityAmounts :
           CallGetAmount0ForLiquidity(a, b, liq)
    \/ \E a \in LiquidityPrices, b \in LiquidityPrices, liq \in LiquidityAmounts :
           CallGetAmount1ForLiquidity(a, b, liq)

MathSpec == Init /\ [][MathNext]_vars

(***************************************************************************)
(* WsProvider                                                              *)
(***************************************************************************)
\* start() and stop() calls made on one WsProvider.
MaxWsCalls == 4

\* isConnected() answering for every provider that is not null, whether
\* started or not.
isConnectedByProvider == ws.provider # 0

isConnected == ws.isStarted /\ ws.provider # 0

\* getProvider(): the provider, or the ProviderError it throws.
getProvider ==
    IF ~ws.isStarted \/ ws.provider = 0
    THEN [threw |-> TRUE, provider |-> 0]
    ELSE [threw |-> FALSE, provider |-> ws.provider]

WsCall(kind, at) == [kind |-> kind, at |-> at]

\* start(), from the call to its first await, return or throw.  The
\* WebSocketProvider constructor either returns or throws.
WsStart(constructed) ==
    /\ Len(ws.calls) < MaxWsCalls
    /\ ws' = IF ws.isStarted
             THEN [ws EXCEPT !.calls = Append(@, WsCall("start", "returned"))]
             ELSE IF constructed
             THEN [ws EXCEPT !.provider = ws.created + 1,
                             !.created = @ + 1,
                             !.calls = Append(@, WsCall("start", "await"))]
             ELSE [ws EXCEPT !.provider = 0,
                             !.calls = Append(@, WsCall("start", "threw"))]
    /\ UNCHANGED <<pool, pc, sw, last, createdLiquidity, nOps, flow, ledger, baseline, jit, call,
                 bx, bot, metrics>>

\* start() resumed after `await this.provider.getNetwork()`: the promise
\* resolved with the chain id expected, or with another one or rejected.
WsStartResume(i, sameChain) ==
    /\ i \in DOMAIN ws.calls
    /\ ws.calls[i] = WsCall("start", "await")
    /\ ws' = IF sameChain
             THEN [ws EXCEPT !.isStarted = TRUE,
                             !.startCompleted = TRUE,
                             !.stopCompleted = FALSE,
                             !.calls[i] = WsCall("start", "returned")]
             ELSE [ws EXCEPT !.provider = 0,
                             !.calls[i] = WsCall("start", "threw")]
    /\ UNCHANGED <<pool, pc, sw, last, createdLiquidity, nOps, flow, ledger, baseline, jit, call,
                 bx, bot, metrics>>

\* stop(), from the call to its await or return.
WsStop ==
    /\ Len(ws.calls) < MaxWsCalls
    /\ ws' = IF ~ws.isStarted \/ ws.provider = 0
             THEN [ws EXCEPT !.stopCompleted = TRUE,
                             !.calls = Append(@, WsCall("stop", "returned"))]
             ELSE [ws EXCEPT !.calls = Append(@, WsCall("stop", "await"))]
    /\ UNCHANGED <<pool, pc, sw, last, createdLiquidity, nOps, flow, ledger, baseline, jit, call,
                 bx, bot, metrics>>

\* stop() resumed after `await this.provider.destroy()`: the promise
\* resolved or rejected.
WsStopResume(i, destroyed) ==
    /\ i \in DOMAIN ws.calls
    /\ ws.calls[i] = WsCall("stop", "await")
    /\ ws' = IF destroyed
             THEN [ws EXCEPT !.provider = 0,
                             !.isStarted = FALSE,
                             !.stopCompleted = TRUE,
                             !.calls[i] = WsCall("stop", "returned")]
             ELSE [ws EXCEPT !.calls[i] = WsCall("stop", "threw")]
    /\ UNCHANGED <<pool, pc, sw, last, createdLiquidity, nOps, flow, ledger, baseline, jit, call,
                 bx, bot, metrics>>

\* start() and stop() calls in any order, each resumed at any later point.
WsNext ==
    \/ \E constructed \in BOOLEAN : WsStart(constructed)
    \/ \E i \in 1..MaxWsCalls, sameChain \in BOOLEAN : WsStartResume(i, sameChain)
    \/ WsStop
    \/ \E i \in 1..MaxWsCalls, destroyed \in BOOLEAN : WsStopResume(i, destroyed)

WsSpec == Init /\ [][WsNext]_vars

(***************************************************************************)
(* The bloXroute watcher                                                   *)
(***************************************************************************)
\* Close events and SIGINT signals followed.
MaxBxCloses == 7

MaxBxSignals == 2

\* The same delay without its ceiling of 30 seconds.
backoffMsUncapped(reconnectAttempts) ==
    1000 * (2 ^ reconnectAttempts)

\* The delay connect's close handler hands to setTimeout.
backoffMs(reconnectAttempts) ==
    IF 1000 * (2 ^ reconnectAttempts) < 30000
    THEN 1000 * (2 ^ reconnectAttempts)
    ELSE 30000

\* The 'open' event of the socket (the subscription is sent).
BxOpen ==
    /\ bx.socket = "connecting"
    /\ bx' = [bx EXCEPT !.socket = "open", !.reconnectAttempts = 0, !.closes = 0]
    /\ UNCHANGED <<pool, pc, sw, last, createdLiquidity, nOps, flow, ledger,
                   baseline, jit, call, ws, bot, metrics>>

\* The 'close' event of the socket, whether the network or ws.close()
\* ended it.
BxClose ==
    /\ bx.socket \in {"connecting", "open", "closing"}
    /\ bx.closeEvents < MaxBxCloses
    /\ bx' = IF bx.closedByUs
             THEN [bx EXCEPT !.socket = "closed", !.closeEvents = @ + 1,
                             !.closes = @ + 1]
             ELSE [bx EXCEPT !.socket = "closed", !.closeEvents = @ + 1,
                             !.closes = @ + 1,
                             !.backoffMs = backoffMs(bx.reconnectAttempts),
                             !.reconnectAttempts = @ + 1,
                             !.timers = @ + 1]
    /\ UNCHANGED <<pool, pc, sw, last, createdLiquidity, nOps, flow, ledger,
                   baseline, jit, call, ws, bot, metrics>>

\* The timer of a close handler fires: connect() makes a socket and adds
\* a SIGINT listener.
BxTimer ==
    /\ bx.timers > 0
    /\ bx' = [bx EXCEPT !.timers = @ - 1, !.socket = "connecting",
                        !.sockets = @ + 1, !.listeners = @ + 1]
    /\ UNCHANGED <<pool, pc, sw, last, createdLiquidity, nOps, flow, ledger,
                   baseline, jit, call, ws, bot, metrics>>

\* SIGINT: every listener sets closedByUs and closes the current socket.
BxSigint ==
    /\ bx.signals < MaxBxSignals
    /\ bx' = [bx EXCEPT !.closedByUs = TRUE,
                        !.socket = IF @ \in {"connecting", "open"}
                                   THEN "closing" ELSE @,
                        !.signals = @ + 1,
                        !.socketsAtSignal = IF bx.signals = 0 THEN bx.sockets ELSE @]
    /\ UNCHANGED <<pool, pc, sw, last, createdLiquidity, nOps, flow, ledger,
                   baseline, jit, call, ws, bot, metrics>>

BxNext ==
    \/ BxOpen
    \/ BxClose
    \/ BxTimer
    \/ BxSigint

BxSpec == Init /\ [][BxNext]_vars

(***************************************************************************)
(* JitBot: start, shutdown and the signal handlers                         *)
(***************************************************************************)
\* Signals and uncaught errors followed.
MaxBotSignals == 2

\* bot.start() returns: the providers, the state store and the watcher are
\* there (the WebSocket provider and the watcher when ETH_RPC_WS is set),
\* and the shutdown of the demonstration is scheduled.
BotStart(wsConfigured) ==
    /\ ~bot.exited
    /\ bot.phase = "constructed"
    /\ bot' = [bot EXCEPT !.phase = "ready", !.stateStore = TRUE,
                          !.wsConnected = wsConfigured,
                          !.isWatching = wsConfigured, !.timer = TRUE]
    /\ UNCHANGED <<pool, pc, sw, last, createdLiquidity, nOps, flow, ledger,
                   baseline, jit, call, ws, bx, metrics>>

\* shutdown() from its third step: stateStore.save() is called when there is
\* a state store.
ShutdownSave(b, i) ==
    IF b.stateStore
    THEN [b EXCEPT !.calls[i].at = "await_save", !.save = "invoked"]
    ELSE [b EXCEPT !.calls[i].at = "resolved"]

\* shutdown() from its second step: wsProvider.stop() is called when the
\* provider is connected.
ShutdownWs(b, i) ==
    IF b.wsConnected
    THEN [b EXCEPT !.calls[i].at = "await_ws"]
    ELSE ShutdownSave(b, i)

\* shutdown() from its first step: mempoolWatcher.stop() is called when the
\* watcher is active.
ShutdownWatcher(b, i) ==
    IF b.isWatching
    THEN [b EXCEPT !.calls[i].at = "await_watcher"]
    ELSE ShutdownWs(b, i)

\* A call of shutdown(), up to its first await or its return.
shutdown(b, from) ==
    IF b.isShuttingDown
    THEN [b EXCEPT !.calls = Append(@, [from |-> from, at |-> "resolved",
                                        ran |-> FALSE, store |-> b.stateStore])]
    ELSE ShutdownWatcher(
             [b EXCEPT !.isShuttingDown = TRUE,
                       !.calls = Append(@, [from |-> from, at |-> "entry",
                                            ran |-> TRUE, store |-> b.stateStore])],
             Len(b.calls) + 1)

\* The timer start() has set fires.
BotTimer ==
    /\ ~bot.exited
    /\ bot.timer
    /\ bot' = shutdown([bot EXCEPT !.timer = FALSE], "timer")
    /\ UNCHANGED <<pool, pc, sw, last, createdLiquidity, nOps, flow, ledger,
                   baseline, jit, call, ws, bx, metrics>>

\* SIGINT, SIGTERM, an uncaught exception or an unhandled rejection: the
\* handler of setupGracefulShutdown calls bot.shutdown().
BotSignal ==
    /\ ~bot.exited
    /\ bot.signals < MaxBotSignals
    /\ bot' = shutdown([bot EXCEPT !.signals = @ + 1], "signal")
    /\ UNCHANGED <<pool, pc, sw, last, createdLiquidity, nOps, flow, ledger,
                   baseline, jit, call, ws, bx, metrics>>

\* The promise shutdown() awaits settles: the stop() or save() has
\* returned (ok) or thrown, and shutdown() runs on to its next await, or
\* into its catch block, and returns.
BotResume(i, ok) ==
    /\ ~bot.exited
    /\ i \in DOMAIN bot.calls
    /\ bot.calls[i].at \in {"await_watcher", "await_ws", "await_save"}
    /\ bot' = CASE bot.calls[i].at = "await_watcher" ->
                     IF ok THEN ShutdownWs([bot EXCEPT !.isWatching = FALSE], i)
                     ELSE [bot EXCEPT !.calls[i].at = "resolved", !.stopFailed = TRUE]
                [] bot.calls[i].at = "await_ws" ->
                     IF ok THEN ShutdownSave([bot EXCEPT !.wsConnected = FALSE], i)
                     ELSE [bot EXCEPT !.calls[i].at = "resolved", !.stopFailed = TRUE]
                [] bot.calls[i].at = "await_save" ->
                     [bot EXCEPT !.calls[i].at = "resolved",
                                 !.save = IF ok THEN "resolved" ELSE "rejected"]
    /\ UNCHANGED <<pool, pc, sw, last, createdLiquidity, nOps, flow, ledger,
                   baseline, jit, call, ws, bx, metrics>>

\* The promise a shutdown() call returned is resolved: the signal handler
\* calls process.exit(0), the timer's caller does nothing.
BotSettle(i) ==
    /\ ~bot.exited
    /\ i \in DOMAIN bot.calls
    /\ bot.calls[i].at = "resolved"
    /\ bot' = [bot EXCEPT !.calls[i].at = "done",
                          !.exited = (bot.calls[i].from = "signal")]
    /\ UNCHANGED <<pool, pc, sw, last, createdLiquidity, nOps, flow, ledger,
                   baseline, jit, call, ws, bx, metrics>>

BotNext ==
    \/ \E wsConfigured \in BOOLEAN : BotStart(wsConfigured)
    \/ BotTimer
    \/ BotSignal
    \/ \E i \in 1..(MaxBotSignals + 1), ok \in BOOLEAN : BotResume(i, ok)
    \/ \E i \in 1..(MaxBotSignals + 1) : BotSettle(i)

BotSpec == Init /\ [][BotNext]_vars

(***************************************************************************)
(* JitMetrics                                                              *)
(***************************************************************************)
\* Calls made on the JitMetrics.
MaxMetricsCalls == 4

\* Values recorded (USD amounts, durations, scores).
MetricValues == {1, 5}

\* Values a histogram keeps.
HISTOGRAM_KEEP == 10000

\* recordHistogram: the value is pushed when the map has the name, and the
\* histogram cut to its last 10000 values; nothing is done otherwise.
recordHistogram(histograms, name, value) ==
    IF name \in DOMAIN histograms
    THEN [histograms EXCEPT
            ![name] = IF Len(@) + 1 > HISTOGRAM_KEEP
                      THEN SubSeq(Append(@, value), Len(@) + 2 - HISTOGRAM_KEEP,
                                  Len(@) + 1)
                      ELSE Append(@, value)]
    ELSE histograms

recordOpportunityDetected(swapSizeUsd, score) ==
    /\ metrics.calls < MaxMetricsCalls
    /\ metrics' = [metrics EXCEPT
          !.metrics.jit_opportunities_detected_total = @ + 1,
          !.histograms = recordHistogram(
                             recordHistogram(@, "jit_swap_size_usd", swapSizeUsd),
                             "jit_score_distribution", score),
          !.handed = @ + 2,
          !.calls = @ + 1]
    /\ UNCHANGED <<pool, pc, sw, last, createdLiquidity, nOps, flow, ledger,
                   baseline, jit, call, ws, bx, bot>>

recordPositionOpened ==
    /\ metrics.calls < MaxMetricsCalls
    /\ metrics' = [metrics EXCEPT
          !.metrics.jit_positions_opened_total = @ + 1,
          !.metrics.jit_active_positions = @ + 1,
          !.calls = @ + 1]
    /\ UNCHANGED <<pool, pc, sw, last, createdLiquidity, nOps, flow, ledger,
                   baseline, jit, call, ws, bx, bot>>

recordPositionResult(success, profitUsd, durationMs, gasCostUsd) ==
    /\ metrics.calls < MaxMetricsCalls
    /\ metrics' = [metrics EXCEPT
          !.metrics.jit_positions_successful_total = IF success THEN @ + 1 ELSE @,
          !.metrics.jit_active_positions = IF @ > 0 THEN @ - 1 ELSE 0,
          !.histograms = recordHistogram(
                             recordHistogram(
                                 recordHistogram(@, "jit_position_profit_usd",
                                                 profitUsd),
                                 "jit_position_duration_ms", durationMs),
                             "jit_gas_cost_usd", gasCostUsd),
          !.handed = @ + 3,
          !.calls = @ + 1]
    /\ UNCHANGED <<pool, pc, sw, last, createdLiquidity, nOps, flow, ledger,
                   baseline, jit, call, ws, bx, bot>>

\* reset(): the counters are set anew and the histograms map is cleared.
reset ==
    /\ metrics.calls < MaxMetricsCalls
    /\ metrics' = [metrics EXCEPT
          !.metrics = MetricsZero,
          !.histograms = <<>>,
          !.wasReset = TRUE, !.handed = 0, !.summary = "none",
          !.calls = @ + 1]
    /\ UNCHANGED <<pool, pc, sw, last, createdLiquidity, nOps, flow, ledger,
                   baseline, jit, call, ws, bx, bot>>

\* getPerformanceSummary(): histogram_stats of the snapshot has an entry per
\* name of the map, and reading .count of a missing entry is a TypeError.
getPerformanceSummary ==
    /\ metrics.calls < MaxMetricsCalls
    /\ metrics' = [metrics EXCEPT
          !.summary = IF "jit_gas_cost_usd" \in DOMAIN metrics.histograms
                      THEN "returned" ELSE "TypeError",
          !.calls = @ + 1]
    /\ UNCHANGED <<pool, pc, sw, last, createdLiquidity, nOps, flow, ledger,
                   baseline, jit, call, ws, bx, bot>>

MetricsNext ==
    \/ \E swapSizeUsd \in MetricValues, score \in MetricValues :
          recordOpportunityDetected(swapSizeUsd, score)
    \/ recordPositionOpened
    \/ \E success \in BOOLEAN, profitUsd \in MetricValues, gasCostUsd \in MetricValues :
          recordPositionResult(success, profitUsd, 1, gasCostUsd)
    \/ reset
    \/ getPerformanceSummary

MetricsSpec == Init /\ [][MetricsNext]_vars

(***************************************************************************)
(* Calls of getPositionKey                                                 *)
(***************************************************************************)
\* Owners handed to getPositionKey: 'lp', 'lp-' and 'jit-bot'.
KeyOwners == {<<"l", "p">>, <<"l", "p", "-">>, JitRecipient}

KeyTicks == MIN_TICK..MAX_TICK

CallGetPositionKey(owner, tickLower, tickUpper) ==
    /\ call' = CallReturned("getPositionKey", <<owner, tickLower, tickUpper>>,
                            getPositionKey(owner, tickLower, tickUpper))
    /\ UNCHANGED <<pool, pc, sw, last, createdLiquidity, nOps, flow, ledger,
                   baseline, jit, ws, bx, bot, metrics>>

KeyNext ==
    \E owner \in KeyOwners, tickLower \in KeyTicks, tickUpper \in KeyTicks :
        CallGetPositionKey(owner, tickLower, tickUpper)

KeySpec == Init /\ [][KeyNext]_vars

(***************************************************************************)
(* Properties                                                              *)
(***************************************************************************)
RECURSIVE SumOver(_, _)
SumOver(f, S) ==
    IF S = {} THEN 0
    ELSE LET x == CHOOSE y \in S : TRUE IN f[x] + SumOver(f, S \ {x})

\* The sum of liquidityNet over the initialized ticks at or below currentTick.
ActiveLiquidityNet ==
    SumOver([t \in DOMAIN ticks |-> ticks[t].liquidityNet],
            {t \in DOMAIN ticks : ticks[t].initialized /\ t <= currentTick})

\* The total liquidity of the positions that have tick t as a boundary.
ReferencingLiquidity(t) ==
    SumOver([k \in DOMAIN positions |-> positions[k].liquidity],
            {k \in DOMAIN positions :
                positions[k].tickLower = t \/ positions[k].tickUpper = t})

\* A call of mintPosition, burnPosition or collectFees has just returned or
\* thrown (these calls are one step each).
Returned(op) ==
    pc = "idle" /\ pc' = "idle" /\ last'.op = op

\* The model has stopped following a loop whose iterations still change
\* something after MaxSwapSteps of them.
LoopCutOff ==
    pc = "swap" /\ SwapLoopRuns /\ sw.steps >= MaxSwapSteps /\ ~SwapStepRepeats

\* C1: every executeSwap call returns: a swap that has entered its loop
\* leaves it after finitely many iterations.  (A loop the model stops
\* following at MaxSwapSteps iterations is not counted against the claim.)
C1_SwapTerminates == (pc # "idle") ~> (pc = "idle" \/ LoopCutOff)

C3_ActiveLiquidity ==
    (pc = "idle" /\ createdLiquidity = 0) => liquidity = ActiveLiquidityNet

\* C4: no iteration of the swap loop moves the price against the direction
\* of travel: never up when zeroForOne, never down otherwise.
C4_Direction ==
    [][(pc = "step" /\ pc' = "swap") =>
          IF sw.zeroForOne
          THEN sw'.currentSqrtPriceX96 <= sw.currentSqrtPriceX96
          ELSE sw'.currentSqrtPriceX96 >= sw.currentSqrtPriceX96]_vars

\* C5: the price executeSwap returns with is not past the limit (the
\* caller's, or the default): >= the limit when zeroForOne, <= otherwise.
C5_Limit ==
    [][(pc = "swap" /\ pc' = "idle" /\ last'.err = "") =>
          IF sw.zeroForOne
          THEN sqrtPriceX96' >= sw.sqrtPriceLimitX96
          ELSE sqrtPriceX96' <= sw.sqrtPriceLimitX96]_vars

\* C6: each tick's liquidityGross is the total liquidity of the positions
\* that have the tick as tickLower or tickUpper.
C6_Gross ==
    \A t \in DOMAIN ticks : ticks[t].liquidityGross = ReferencingLiquidity(t)

\* C7: every entry of the tick map has a nonzero liquidityGross, is
\* initialized, and is still referenced by a position: an entry whose last
\* liquidity has been burned is gone.
C7_TickPresence ==
    \A t \in DOMAIN ticks :
        /\ ticks[t].liquidityGross # 0
        /\ ticks[t].initialized
        /\ ReferencingLiquidity(t) # 0

\* C8: a mintPosition call that fails with 'Liquidity overflow' leaves the
\* pool (ticks, positions, liquidity and all the rest) as it was.
C8_MintOverflowAtomic ==
    [][(Returned("mint") /\ last'.err = "Liquidity overflow") => pool' = pool]_vars

\* C9: no step other than collectFees lowers a position's tokensOwed0 or
\* tokensOwed1, and collectFees lowers each by the amount it returns.
C9_TokensOwed ==
    [][\A k \in (DOMAIN positions) \cap (DOMAIN positions') :
          IF Returned("collect") /\ last'.err = "" /\ last'.key = k
          THEN /\ positions'[k].tokensOwed0 = positions[k].tokensOwed0 - last'.amount0
               /\ positions'[k].tokensOwed1 = positions[k].tokensOwed1 - last'.amount1
          ELSE /\ positions'[k].tokensOwed0 >= positions[k].tokensOwed0
               /\ positions'[k].tokensOwed1 >= positions[k].tokensOwed1]_vars

\* C10: a successful burnPosition returns as feeAmount0 / feeAmount1 the
\* amount Mint's settlement would credit: the liquidity the position held
\* before the call times the growth of feeGrowthInside since the position's
\* snapshot, shifted right by the fee-growth resolution.
C10_BurnFees ==
    [][(Returned("burn") /\ last'.err = "") =>
          LET position == positions[last'.key]
              Inside(token0) ==
                  getFeeGrowthInside(ticks, currentTick, feeGrowthGlobal0X128,
                      feeGrowthGlobal1X128, position.tickLower,
                      position.tickUpper, token0)
          IN  /\ last'.feeAmount0 =
                   Shr(position.liquidity *
                       (Inside(TRUE) - position.feeGrowthInside0LastX128),
                       FG_RESOLUTION)
              /\ last'.feeAmount1 =
                   Shr(position.liquidity *
                       (Inside(FALSE) - position.feeGrowthInside1LastX128),
                       FG_RESOLUTION)]_vars

\* A burnPosition call has just ended that asked for exactly the liquidity
\* the call before it, a successful mintPosition on the same key, minted.
BurnOfJustMinted ==
    /\ Returned("burn")
    /\ last.op = "mint" /\ last.err = ""
    /\ last'.key = last.key
    /\ last'.liquidity = last.liquidity

\* C11: burning the liquidity a mint has just minted, at the unchanged
\* price, returns amount0 and amount1 within 1 unit of what the mint took,
\* with feeAmount0 = feeAmount1 = 0.
C11_MintBurnConservation ==
    [][BurnOfJustMinted =>
          /\ last'.err = ""
          /\ Abs(last'.amount0 - last.amount0) <= 1
          /\ Abs(last'.amount1 - last.amount1) <= 1
          /\ last'.feeAmount0 = 0
          /\ last'.feeAmount1 = 0]_vars

\* C12: whenever swaps against fixed positions have brought the price back
\* to the price they started from, the pool has not paid out more of either
\* token than it received: the amounts returned (positive when the trader
\* pays the pool) sum to at least 0 for each token.
C12_NoNetPayout ==
    (pc = "idle" /\ flow.tracking /\ flow.swaps > 0 /\ sqrtPriceX96 = flow.start) =>
        flow.amount0 >= 0 /\ flow.amount1 >= 0

\* The step the loop body is about to take: the target price it is given
\* and what computeSwapStep returns for it.
StepTaken ==
    LET ni == getNextInitializedTick(ticks, sw.currentTickValue, sw.zeroForOne)
        target == SwapTarget(getSqrtRatioAtTick(ni.tickNext))
    IN  [target |-> target,
         c |-> computeSwapStep(sw.currentSqrtPriceX96, target, sw.currentLiquidity,
                               sw.amountSpecifiedRemaining, FeeTier)]

C14_FeeGrowthMonotone ==
    [][/\ feeGrowthGlobal0X128' >= feeGrowthGlobal0X128
       /\ feeGrowthGlobal1X128' >= feeGrowthGlobal1X128]_vars

\* C14, witness: a swap has returned after raising a fee-growth accumulator.
C14_Witness ==
    /\ pc = "idle" /\ last.op = "swap" /\ last.err = "" /\ last.feeAmount > 0
    /\ feeGrowthGlobal0X128 + feeGrowthGlobal1X128 > 0


\* The body of the swap loop is about to run with no active liquidity.
ZeroLiquidityStep == pc = "step" /\ sw.currentLiquidity = 0

\* The iteration about to run raises no error and leaves both fee-growth
\* accumulators as they are.
StepQuiet ==
    \E r \in {SwapStepOutcome} :
        /\ ~r.threw
        /\ r.fg0 = feeGrowthGlobal0X128
        /\ r.fg1 = feeGrowthGlobal1X128

\* C15: when every swap runs with zero active liquidity throughout, every
\* iteration of a swap raises no error and leaves feeGrowthGlobal0X128 and
\* feeGrowthGlobal1X128 unchanged, and every swap that has begun completes
\* without an error.
C15_ZeroLiquiditySwap ==
    [](pc # "idle" => sw.currentLiquidity = 0) =>
        /\ [](ZeroLiquidityStep => StepQuiet)
        /\ (pc # "idle") ~> ((pc = "idle" /\ last.err = "") \/ LoopCutOff)

\* The body of the loop runs as the only iteration of a zero-for-one swap
\* and ends at a price within the pool's current tick.
SmallZeroForOneSwap ==
    /\ pc = "step" /\ pc' = "swap"
    /\ sw.zeroForOne /\ sw.steps = 0
    /\ liquidity # 0
    /\ sw'.amountSpecifiedRemaining = 0 \/ sw'.currentSqrtPriceX96 = sw'.sqrtPriceLimitX96
    /\ sw'.currentSqrtPriceX96 >= getSqrtRatioAtTick(currentTick)
    /\ currentTick < MAX_TICK => sw'.currentSqrtPriceX96 < getSqrtRatioAtTick(currentTick + 1)

\* C16: a zero-for-one swap that stays within the current tick leaves
\* currentTick unchanged and increases feeGrowthGlobal0X128 by exactly
\* (feeAmount << 128) / liquidity.
C16_SmallSwap ==
    [][SmallZeroForOneSwap =>
          /\ sw'.currentTickValue = currentTick
          /\ feeGrowthGlobal0X128' =
                 feeGrowthGlobal0X128 + Div(Shl(sw'.feeAmount, FG_RESOLUTION), liquidity)]_vars

\* C17: the amounts executeSwap returns have the signs zeroForOne fixes:
\* amount0 >= 0 and amount1 <= 0 when it is true, amount1 >= 0 and
\* amount0 <= 0 when it is false.
C17_AmountSigns ==
    [][pc = "swap" /\ pc' = "idle" =>
          IF sw.zeroForOne
          THEN last'.amount0 >= 0 /\ last'.amount1 <= 0
          ELSE last'.amount1 >= 0 /\ last'.amount0 <= 0]_vars

\* The errors the validation of mintPosition, burnPosition and collectFees
\* throws.
ValidationErrors ==
    {"Invalid tick range", "Ticks not aligned to tick spacing", "Tick out of bounds",
     "No liquidity to mint", "Amount exceeds maximum",
     "Position not found", "Insufficient liquidity"}

\* C18: a Mint, Burn or Collect call rejected by validation leaves every
\* field, tick entry and position entry of the pool as it was.
C18_RejectedUnmodified ==
    [][(Returned("mint") \/ Returned("burn") \/ Returned("collect"))
          /\ last'.err \in ValidationErrors
       => pool' = pool]_vars

\* C18, witness: a burn of more than the position holds has been rejected on
\* a pool with initialized ticks.
C18_Witness ==
    /\ pc = "idle" /\ last.op = "burn" /\ last.err = "Insufficient liquidity"
    /\ last.key \in DOMAIN positions
    /\ DOMAIN ticks # {}

\* mintPosition has returned for a key that named a position before the call.
MintIntoExisting ==
    Returned("mint") /\ last'.err = "" /\ last'.key \in DOMAIN positions

\* feeGrowthInside of the minted range as mintPosition reads it, after its
\* two updateTick calls.
MintedFeeGrowthInside(token0) ==
    getFeeGrowthInside(ticks', currentTick, feeGrowthGlobal0X128, feeGrowthGlobal1X128,
                       positions'[last'.key].tickLower,
                       positions'[last'.key].tickUpper, token0)

\* C19: a mint into an existing position credits tokensOwed0 / tokensOwed1
\* with the position's old liquidity times the growth of feeGrowthInside
\* since its snapshot, shifted right by the fee-growth resolution, adds the
\* minted liquidity, and sets the snapshots to the current feeGrowthInside.
C19_MintSettlesFirst ==
    [][MintIntoExisting =>
          LET old == positions[last'.key]
              new == positions'[last'.key]
          IN  /\ new.tokensOwed0 = old.tokensOwed0 +
                     Shr(old.liquidity *
                         (MintedFeeGrowthInside(TRUE) - old.feeGrowthInside0LastX128),
                         FG_RESOLUTION)
              /\ new.tokensOwed1 = old.tokensOwed1 +
                     Shr(old.liquidity *
                         (MintedFeeGrowthInside(FALSE) - old.feeGrowthInside1LastX128),
                         FG_RESOLUTION)
              /\ new.liquidity = old.liquidity + last'.liquidity
              /\ new.feeGrowthInside0LastX128 = MintedFeeGrowthInside(TRUE)
              /\ new.feeGrowthInside1LastX128 = MintedFeeGrowthInside(FALSE)]_vars

\* C19, witness: a mint into an existing position has credited fees that
\* had accrued on its old liquidity.
C19_Witness ==
    /\ pc = "idle" /\ last.op = "mint" /\ last.err = ""
    /\ last.key \in DOMAIN positions
    /\ positions[last.key].liquidity > last.liquidity
    /\ positions[last.key].tokensOwed0 + positions[last.key].tokensOwed1 > 0

\* C20: once clonePoolState has run, no step of a call made on one of the
\* two PoolStates changes a field, a tick entry or a position entry of the
\* other, whichever of the two the calls are made on.
C20_CloneIndependent ==
    [][baseline.cloned /\ baseline'.side = baseline.side
       => baseline'.pool = baseline.pool]_vars

\* C20, witness: calls made after the clone, on the original and on the
\* copy, have left a tick entry and a position entry that both hold with
\* different contents.
C20_Witness ==
    /\ baseline.cloned /\ baseline.side = 1 /\ pc = "idle"
    /\ baseline.pool # pool
    /\ \E k \in DOMAIN ticks \cap DOMAIN baseline.pool[6] : ticks[k] # baseline.pool[6][k]
    /\ \E k \in DOMAIN positions \cap DOMAIN baseline.pool[7] :
           positions[k] # baseline.pool[7][k]

\* C21: from its first step to its return, whether it returns a success or
\* a failure, no step of executeJitSimulation changes params.poolState.
C21_JitFrame ==
    [][jit.step # "none" => baseline'.pool = baseline.pool]_vars

\* C21, witness: executeJitSimulation has failed after its mint had written
\* to simulationState.
C21_Witness ==
    /\ jit.step = "error" /\ pc = "idle"
    /\ last.op = "mint"
    /\ pool # baseline.pool
    /\ DOMAIN baseline.pool[6] # {}

\* C22: for every tick within [MIN_TICK, MAX_TICK], both bounds included,
\* getTickAtSqrtRatio called on what getSqrtRatioAtTick returned for the
\* tick returns the tick.
C22_TickRoundTrip ==
    [][/\ call.fn = "getSqrtRatioAtTick" /\ TickInBounds(call.args[1])
       /\ call'.fn = "getTickAtSqrtRatio" /\ call'.args = <<call.result>>
       => ~call.threw /\ ~call'.threw /\ call'.result = call.args[1]]_vars

\* C23: for every tick and every spacing s > 0, nearestUsableTick returns,
\* and what it returns is a multiple of s within [MIN_TICK, MAX_TICK].
C23_AlignedInBounds ==
    call.fn = "nearestUsableTick" /\ call.args[2] > 0
        => /\ ~call.threw
           /\ call.result % call.args[2] = 0
           /\ TickInBounds(call.result)

\* C23, witness: a tick beyond MAX_TICK whose rounding is beyond MAX_TICK
\* too has been brought back to a multiple of the spacing other than 0.
C23_Witness ==
    /\ call.fn = "nearestUsableTick" /\ ~call.threw
    /\ call.args[1] > MAX_TICK
    /\ nearestUsableTickUnclamped(call.args[1], call.args[2]) > MAX_TICK
    /\ call.result # 0 /\ call.result <= MAX_TICK

\* m is the multiple of spacing nearest to tick, the more positive of the
\* two when tick is halfway between them.
NearestMultiple(tick, spacing, m) ==
    /\ m % spacing = 0
    /\ 2 * (m - tick) <= spacing
    /\ 2 * (tick - m) < spacing

\* C24: nearestUsableTick returns the multiple of the spacing nearest to
\* the tick, and the more positive of the two when the tick is exactly
\* halfway between them, for negative ticks as for positive ones.
C24_NearestMultiple ==
    call.fn = "nearestUsableTick" /\ call.args[2] > 0
        => ~call.threw /\ NearestMultiple(call.args[1], call.args[2], call.result)

\* C24, amended: it does so whenever that multiple lies within [MIN_TICK,
\* MAX_TICK]; when the multiple is below MIN_TICK it returns the lowest
\* multiple that is not, and when it is above MAX_TICK the highest multiple
\* that is not.
C24_NearestUsableMultiple ==
    call.fn = "nearestUsableTick" /\ call.args[2] > 0
        => /\ ~call.threw
           /\ call.result % call.args[2] = 0
           /\ LET tick == call.args[1]
                  spacing == call.args[2]
                  m == nearestUsableTickUnclamped(tick, spacing)
              IN  /\ NearestMultiple(tick, spacing, m)
                  /\ TickInBounds(m) => call.result = m
                  /\ m < MIN_TICK =>
                         call.result >= MIN_TICK /\ call.result - spacing < MIN_TICK
                  /\ m > MAX_TICK =>
                         call.result <= MAX_TICK /\ call.result + spacing > MAX_TICK

\* C24, witness: a negative tick halfway between two multiples of the
\* spacing has gone to the more positive one.
C24_Witness ==
    /\ call.fn = "nearestUsableTick" /\ ~call.threw
    /\ call.args[1] < 0
    /\ 2 * (call.result - call.args[1]) = call.args[2]
    /\ TickInBounds(call.args[1])

\* The functions of the liquidity math whose two boundary prices are
\* arguments 1 and 2, and those where they are arguments 2 and 3.
BoundaryFirst ==
    {"liquidityFromToken0", "liquidityFromToken1",
     "getAmount0ForLiquidity", "getAmount1ForLiquidity"}

BoundarySecond == {"liquidityForAmounts", "getAmountsForLiquidity"}

\* The arguments of a call with the two boundary prices exchanged.
Exchanged(fn, args) ==
    IF fn \in BoundaryFirst
    THEN [args EXCEPT ![1] = args[2], ![2] = args[1]]
    ELSE [args EXCEPT ![2] = args[3], ![3] = args[2]]

\* C25: each of liquidityFromToken0, liquidityFromToken1,
\* liquidityForAmounts, getAmountsForLiquidity, getAmount0ForLiquidity and
\* getAmount1ForLiquidity, called again with its two boundary prices in the
\* opposite order, has the outcome it had.
C25_BoundaryOrder ==
    [][/\ call.fn \in BoundaryFirst \cup BoundarySecond
       /\ call'.fn = call.fn
       /\ call'.args = Exchanged(call.fn, call.args)
       => call'.threw = call.threw /\ call'.result = call.result]_vars

\* C25, witness: a call with the higher boundary price first has returned
\* liquidity.
C25_Witness ==
    /\ call.fn = "liquidityForAmounts" /\ ~call.threw
    /\ call.args[2] > call.args[3]
    /\ call.args[1] > call.args[3] /\ call.args[1] < call.args[2]
    /\ call.result > 0

\* C26: with pLow and pHigh the lower and the higher boundary price,
\* liquidityForAmounts returns the token0 liquidity of amount0 over [pLow,
\* pHigh] when pCurrent <= pLow, the token1 liquidity of amount1 over
\* [pLow, pHigh] when pCurrent >= pHigh, and otherwise the smaller of the
\* token0 liquidity over [pCurrent, pHigh] and the token1 liquidity over
\* [pLow, pCurrent].
C26_ForAmountsCases ==
    call.fn = "liquidityForAmounts" /\ call.args[2] # call.args[3]
        => LET pCurrent == call.args[1]
               pLow == IF call.args[2] < call.args[3] THEN call.args[2] ELSE call.args[3]
               pHigh == IF call.args[2] < call.args[3] THEN call.args[3] ELSE call.args[2]
               amount0 == call.args[4]
               amount1 == call.args[5]
               token0 == liquidityFromToken0(pCurrent, pHigh, amount0)
               token1 == liquidityFromToken1(pLow, pCurrent, amount1)
           IN  /\ ~call.threw
               /\ pCurrent <= pLow =>
                      call.result = liquidityFromToken0(pLow, pHigh, amount0)
               /\ pCurrent >= pHigh =>
                      call.result = liquidityFromToken1(pLow, pHigh, amount1)
               /\ pCurrent > pLow /\ pCurrent < pHigh =>
                      call.result = IF token0 < token1 THEN token0 ELSE token1

\* C26, witness: the current price is inside the range and the token1
\* liquidity over [pLow, pCurrent] is the smaller one, and is not what the
\* token1 formula gives over the whole range.
C26_Witness ==
    /\ call.fn = "liquidityForAmounts" /\ ~call.threw
    /\ call.args[2] < call.args[1] /\ call.args[1] < call.args[3]
    /\ call.result = liquidityFromToken1(call.args[2], call.args[1], call.args[5])
    /\ call.result < liquidityFromToken0(call.args[1], call.args[3], call.args[4])
    /\ call.result # liquidityFromToken1(call.args[2], call.args[3], call.args[5])

\* C27: under any interleaving of start() and stop() calls, isConnected()
\* is false as long as no start() has run to its end, and false from the
\* return of a stop() until a start() runs to its end; and whenever
\* isConnected() is false, getProvider() throws.
C27_Connected ==
    /\ ~ws.startCompleted => ~isConnected
    /\ ws.stopCompleted => ~isConnected
    /\ ~isConnected => getProvider.threw

\* C27, witness: a stop() has disconnected a started provider, and a
\* start() called since is waiting for the network of the provider it made.
C27_Witness ==
    /\ ws.startCompleted /\ ws.stopCompleted
    /\ ws.provider # 0 /\ ~ws.isStarted
    /\ \E i \in DOMAIN ws.calls : ws.calls[i] = WsCall("stop", "returned")
    /\ \E i \in DOMAIN ws.calls : ws.calls[i] = WsCall("start", "await")
    /\ getProvider.threw

\* C28: a position leaves the position map only with nothing owed to it:
\* when a call removes it, its tokensOwed0 and tokensOwed1, the fees that
\* call has just credited included, are zero.
C28_OwedFeesKept ==
    [][\A key \in DOMAIN positions :
           key \notin DOMAIN positions'
               => /\ positions[key].tokensOwed0 + last'.feeAmount0 = 0
                  /\ positions[key].tokensOwed1 + last'.feeAmount1 = 0]_vars

\* C29: an exact-output swap (amountSpecified < 0) never has more than
\* |amountSpecified| of output to deliver, and enters no further iteration
\* of its loop once it has that much.
C29_ExactOutput ==
    pc # "idle" /\ sw.amountSpecified < 0
        => /\ sw.amountCalculated <= -sw.amountSpecified
           /\ pc = "step" => sw.amountCalculated < -sw.amountSpecified

\* C30: a burnPosition call that names a position of the map and asks for
\* no more liquidity than the position holds returns without an error,
\* whatever mints and burns came before it.
C30_ValidBurnReturns ==
    [][/\ pc = "idle" /\ nOps' = nOps + 1 /\ last'.op = "burn"
       /\ last'.key \in DOMAIN positions
       /\ last'.liquidity <= positions[last'.key].liquidity
       => last'.err = ""]_vars

\* C31: for each token, over any sequence of Mint, Burn, Collect and Swap
\* calls, what has been added to the tokensOwed of positions in total never
\* exceeds the total feeAmount the swaps have charged in that token.
C31_CreditedWithinCharged ==
    ledger.tracking =>
        /\ ledger.credited0 <= ledger.charged0
        /\ ledger.credited1 <= ledger.charged1

\* C32: once executeJitSimulation is past its mint step, called with a
\* range that is in bounds, aligned on the spacing and in order, and with a
\* liquidityAmount from 1 to the ceiling, the mint step has succeeded and
\* the liquidity it minted is params.liquidityAmount.
C32_JitMintDeploys ==
    ( /\ Len(jit.steps) >= 2
      /\ jit.tickLower < jit.tickUpper
      /\ jit.tickLower >= MIN_TICK /\ jit.tickUpper <= MAX_TICK
      /\ jit.tickLower % TickSpacing = 0 /\ jit.tickUpper % TickSpacing = 0
      /\ jit.liquidityAmount > 0 /\ jit.liquidityAmount <= MAX_LIQUIDITY_GROSS )
    => /\ jit.steps[2] = "mint_position"
       /\ jit.liquidity = jit.liquidityAmount

\* The five steps of a simulation that succeeds, in the order logged.
JitFullSteps ==
    <<"prepare_simulation", "mint_position", "execute_swap", "burn_position",
      "calculate_profit">>

\* C33: the steps list executeJitSimulation returns is either the five
\* steps in order, with success true, or a proper prefix of them followed
\* by one 'error' step, with success false, no gross fees in either token
\* and liquidityDeployed 0.
C33_JitSteps ==
    jit.returned =>
        \/ /\ jit.steps = JitFullSteps
           /\ jit.success
        \/ /\ \E n \in 0..(Len(JitFullSteps) - 1) :
                  jit.steps = SubSeq(JitFullSteps, 1, n) \o <<"error">>
           /\ ~jit.success
           /\ jit.grossFeesToken0 = 0 /\ jit.grossFeesToken1 = 0
           /\ jit.liquidityDeployed = 0

\* C33, witness: executeJitSimulation has returned a failure whose list
\* ends with the 'error' step, after its mint threw.
C33_Witness ==
    /\ jit.returned /\ ~jit.success
    /\ jit.steps = <<"prepare_simulation", "error">>
    /\ last.op = "mint" /\ last.err # ""

\* C34: at every 'close' event of the watcher's socket that comes while no
\* SIGINT has been received, one more reconnect is scheduled and no
\* connection made, and its delay is 1000 * 2^k ms, at most 30000 ms, k
\* being the number of 'close' events since the last 'open' event.
C34_OneReconnect ==
    [][ (bx'.closeEvents = bx.closeEvents + 1 /\ bx.signals = 0)
        => /\ bx'.timers = bx.timers + 1
           /\ bx.timers = 0
           /\ bx'.sockets = bx.sockets
           /\ \E k \in {bx.closes} :
                 bx'.backoffMs = IF 1000 * (2 ^ k) < 30000 THEN 1000 * (2 ^ k)
                                 ELSE 30000 ]_vars

\* C34, witness: a sixth 'close' event in a row has come with no SIGINT
\* received, and the reconnect is scheduled at the ceiling of 30 seconds.
C34_Witness ==
    /\ bx.signals = 0
    /\ bx.closes = 6 /\ bx.timers = 1
    /\ bx.backoffMs = 30000

\* C35: once SIGINT has been received, the watcher makes no socket: the
\* sockets made are those made when the first signal came.
C35_NoSocketAfterSigint ==
    bx.signals > 0 => bx.sockets = bx.socketsAtSignal

\* C36: the process does not exit while a shutdown that has begun has its
\* stateStore.save() still ahead or not yet completed, whatever calls of
\* shutdown() have been made meanwhile.
C36_NoExitBeforeSave ==
    bot.exited =>
        \A i \in DOMAIN bot.calls :
            bot.calls[i].at \notin {"await_watcher", "await_ws", "await_save"}

\* C37: a shutdown() that has run with a state store and has returned has
\* called stateStore.save(), whether or not a stop() has thrown.
C37_SaveAttempted ==
    \A i \in DOMAIN bot.calls :
        ( /\ bot.calls[i].ran /\ bot.calls[i].store
          /\ bot.calls[i].at \in {"resolved", "done"} )
        => bot.save # "none"

\* Values the histograms hold, over all names.
StoredValues ==
    SumOver([n \in DOMAIN metrics.histograms |-> Len(metrics.histograms[n])],
            DOMAIN metrics.histograms)

\* C38: after reset() the JitMetrics does what a new one does: every value
\* recorded since is held by a histogram, and getPerformanceSummary()
\* called since has not thrown.
C38_ResetAsNew ==
    metrics.wasReset =>
        /\ StoredValues = metrics.handed
        /\ metrics.summary # "TypeError"

\* C39: two calls of getPositionKey on different (owner, tickLower,
\* tickUpper) return different keys.
C39_KeysDistinct ==
    [][ ( /\ call.fn = "getPositionKey" /\ call'.fn = "getPositionKey"
          /\ call'.args # call.args )
        => call'.result # call.result ]_vars

=============================================================================
